---- MODULE Spec2Model ----
(***************************************************************************)
(* Rules layer of the roguelike 2D football game.                          *)
(*                                                                         *)
(*   SpecFootball : FootballRules + ScoringManager (gridiron variant),     *)
(*                  driven by its public operations and by the two direct  *)
(*                  phase assignments GamePhysics.update makes.            *)
(*   SpecSoccer   : SoccerRules (pitch variant) with the delayed kickoff   *)
(*                  callbacks that scoreGoal schedules.                    *)
(*   SpecBall     : SoccerBall physics (both classes of the repository).   *)
(*   SpecTackle   : TackleSystem.attemptTackle.                            *)
(*   SpecAI       : one SoccerAI object and its decisions.                 *)
(*   SpecLoop     : the gridiron main loop, GamePhysics.update and         *)
(*                  GamePhysics.updateFormations, with its timers.         *)
(*   SpecPitch    : the pitch main loop, SoccerPhysics.update.             *)
(*   SpecRoute    : one receiver steered by its FootballAI over the plays  *)
(*                  of a drive.                                            *)
(*                                                                         *)
(* Field coordinates and clock values of the rules are integers (yards /   *)
(* seconds); the physics sections state their own fixed-point units.       *)
(***************************************************************************)
EXTENDS Integers, Sequences, FiniteSets, TLC

VARIABLES
    footballRules,   \* the FootballRules object (record of its public fields)
    fbLast,          \* history: last FootballRules operation, its arguments, phase before it
    shortRun,        \* history: consecutive short plays of the current drive, poss at its start
    soccerRules,     \* the SoccerRules object (record of its public fields)
    timers,          \* pending setTimeout callbacks of scoreGoal, oldest first (kicking team)
    scLast,          \* history: last SoccerRules operation, its arguments, phase before it
    ball,            \* the SoccerBall object (position, velocity, spin, flags)
    ballDef,         \* which of the repository's two SoccerBall classes the object is
    ballLast,        \* history: last SoccerBall operation and its arguments
    rollTicks,       \* history: consecutive update() calls that found the ball rolling
    tackle,          \* TackleSystem: the last attemptTackle call, its arguments and outcome
    soccerAI,        \* one SoccerAI object with the player it steers
    aiLast,          \* history: the opponent handed to the last update, whether it decided
    routeRules,      \* the FootballRules object the receiver's FootballAI reads
    footballAI,      \* one FootballAI object: route, startPosition, hasStartedRoute
    receiver,        \* the Player that FootballAI steers: position, speed, formation spot
    routeLog,        \* history: place at the snap, snaps so far, updates in place, last step
    gamePhysics,     \* the GamePhysics singleton: play picked, ball carried, kick meter
    player,          \* the user's gridiron player: the action it is playing
    frameTrail,      \* history: the phase changes the last step made, in order
    frameEnds,       \* history: the endPlay calls the last step made, in order
    returning,       \* history: the play now active began with a kickoff kick
    soccerPhysics,   \* the SoccerPhysics singleton: dribbling, charging a shot
    tickLog          \* history: what the last pitch tick found and did

fbVars == <<footballRules, fbLast, shortRun>>
scVars == <<soccerRules, timers, scLast>>
blVars == <<ball, ballDef, ballLast, rollTicks>>
tkVars == <<tackle>>
aiVars == <<soccerAI, aiLast>>
gpVars == <<gamePhysics, player, frameTrail, frameEnds, returning>>
spVars == <<soccerPhysics, tickLog>>
rtVars == <<routeRules, footballAI, receiver, routeLog>>
vars == <<footballRules, fbLast, shortRun, soccerRules, timers, scLast,
          ball, ballDef, ballLast, rollTicks, tackle, soccerAI, aiLast,
          gamePhysics, player, frameTrail, frameEnds, returning, soccerPhysics, tickLog,
          routeRules, footballAI, receiver, routeLog>>

\* everything outside one subsystem
nonFbVars == <<scVars, blVars, tkVars, aiVars, gpVars, spVars, rtVars>>
nonScVars == <<fbVars, blVars, tkVars, aiVars, gpVars, spVars, rtVars>>
nonBlVars == <<fbVars, scVars, tkVars, aiVars, gpVars, spVars, rtVars>>
nonTkVars == <<fbVars, scVars, blVars, aiVars, gpVars, spVars, rtVars>>
nonAiVars == <<fbVars, scVars, blVars, tkVars, gpVars, spVars, rtVars>>
nonLoopVars == <<scVars, blVars, tkVars, aiVars, spVars, rtVars>>
nonPitchVars == <<fbVars, tkVars, aiVars, gpVars, rtVars>>
nonRouteVars == <<fbVars, scVars, blVars, tkVars, aiVars, gpVars, spVars>>

Teams == {"home", "away"}

Other(t) == IF t = "home" THEN "away" ELSE "home"

Min(a, b) == IF a < b THEN a ELSE b

Abs(a) == IF a < 0 THEN -a ELSE a

(***************************************************************************)
(* Gridiron: FootballRules / ScoringManager                                *)
(***************************************************************************)

FbPlayState == {"PRE_SNAP", "SNAP", "PLAY_ACTIVE", "WHISTLE", "COIN_FLIP", "KICKOFF"}

CoinSides == {"heads", "tails"}

\* bound on the points of one game (both teams together)
MaxScore == 8

\* end-of-play coordinates tried: the edge of each end zone, a short gain from
\* the first drive's line (-40), its marker (-30), midfield, and a spot whose
\* marker would fall behind the goal line
EndXs == {-50, -39, -30, 0, 41, 50}

TouchdownLine == 50

SafetyLine == -50

FirstDownDistance == 10

TouchdownPoints == 6

SafetyPoints == 2

HomeKickoffSpot == -15

AwayKickoffSpot == 15

FootballRulesInit ==
    [down |-> 1, distanceToFirst |-> 10, lineOfScrimmage |-> -40,
     firstDownLine |-> -30, scoreHome |-> 0, scoreAway |-> 0,
     playState |-> "COIN_FLIP", possession |-> "home", kickingTeam |-> "home"]

resetGame(r) ==
    [r EXCEPT !.scoreHome = 0, !.scoreAway = 0, !.playState = "COIN_FLIP"]

\* slip: the two kickoff spots exchanged
setupKickoff_swappedSpots(r) ==
    [r EXCEPT !.playState = "KICKOFF",
              !.lineOfScrimmage = IF r.kickingTeam = "home" THEN AwayKickoffSpot
                                                            ELSE HomeKickoffSpot]

setupKickoff(r) ==
    [r EXCEPT !.playState = "KICKOFF",
              !.lineOfScrimmage = IF r.kickingTeam = "home" THEN HomeKickoffSpot
                                                            ELSE AwayKickoffSpot]

performCoinFlip(r, call, result) ==
    LET won == (call = result)
    IN  IF won
        THEN setupKickoff([r EXCEPT !.possession = "home", !.kickingTeam = "away"])
        ELSE setupKickoff([r EXCEPT !.possession = "away", !.kickingTeam = "home"])

\* slip: the marker is not held at the goal line
calculateFirstDownLine_uncapped(r) ==
    [r EXCEPT !.firstDownLine = r.lineOfScrimmage + r.distanceToFirst]

calculateFirstDownLine(r) ==
    LET fdl == r.lineOfScrimmage + r.distanceToFirst
    IN  [r EXCEPT !.firstDownLine = IF fdl > 50 THEN 50 ELSE fdl]

startNewDrive(r, startX) ==
    LET r1 == [r EXCEPT !.lineOfScrimmage = startX, !.down = 1,
                        !.distanceToFirst = FirstDownDistance]
    IN  [calculateFirstDownLine(r1) EXCEPT !.playState = "WHISTLE"]

\* slip: the phase guard of snapBall dropped
snapBall_unguarded(r) == [r EXCEPT !.playState = "PLAY_ACTIVE"]

snapBall(r) ==
    IF r.playState = "PRE_SNAP" THEN [r EXCEPT !.playState = "PLAY_ACTIVE"] ELSE r

isTouchdown(lineOfScrimmage) == lineOfScrimmage >= TouchdownLine

isSafety(lineOfScrimmage) == lineOfScrimmage <= SafetyLine

\* slip: the team that concedes is made the kicking team
scoreTouchdown_wrongKicker(r) ==
    IF r.possession = "home"
    THEN setupKickoff([r EXCEPT !.scoreHome = @ + TouchdownPoints,
                                !.possession = "away", !.kickingTeam = "away"])
    ELSE setupKickoff([r EXCEPT !.scoreAway = @ + TouchdownPoints,
                                !.possession = "home", !.kickingTeam = "home"])

scoreTouchdown(r) ==
    IF r.possession = "home"
    THEN setupKickoff([r EXCEPT !.scoreHome = @ + TouchdownPoints,
                                !.possession = "away", !.kickingTeam = "home"])
    ELSE setupKickoff([r EXCEPT !.scoreAway = @ + TouchdownPoints,
                                !.possession = "home", !.kickingTeam = "away"])

scoreSafety(r) ==
    IF r.possession = "home"
    THEN setupKickoff([r EXCEPT !.scoreAway = @ + SafetyPoints,
                                !.kickingTeam = "home", !.possession = "away"])
    ELSE setupKickoff([r EXCEPT !.scoreHome = @ + SafetyPoints,
                                !.kickingTeam = "away", !.possession = "home"])

\* slip: the drive restarts without handing the ball over
turnoverOnDowns_keepsBall(r) == startNewDrive(r, r.lineOfScrimmage)

turnoverOnDowns(r) ==
    startNewDrive([r EXCEPT !.possession = Other(r.possession)], r.lineOfScrimmage)

\* slip: the remaining distance taken with the wrong sign
nextDown_wrongSign(r) ==
    [r EXCEPT !.down = @ + 1,
              !.distanceToFirst = r.lineOfScrimmage - r.firstDownLine]

\* endPlay, the branch that falls short of the marker: next down, distance left
nextDown(r) ==
    [r EXCEPT !.down = @ + 1,
              !.distanceToFirst = r.firstDownLine - r.lineOfScrimmage]

\* slip: a failed fourth down does not hand the ball over
endPlay_noTurnover(r, endX) ==
    IF r.playState # "PLAY_ACTIVE" /\ r.playState # "KICKOFF" THEN r
    ELSE IF r.playState = "KICKOFF" THEN startNewDrive(r, endX)
    ELSE
      LET r1 == [r EXCEPT !.lineOfScrimmage = endX]
      IN  IF isTouchdown(r1.lineOfScrimmage) THEN scoreTouchdown(r1)
          ELSE IF isSafety(r1.lineOfScrimmage) THEN scoreSafety(r1)
          ELSE IF r1.lineOfScrimmage >= r1.firstDownLine
               THEN [calculateFirstDownLine(
                        [r1 EXCEPT !.down = 1, !.distanceToFirst = FirstDownDistance])
                     EXCEPT !.playState = "WHISTLE"]
               ELSE [nextDown(r1) EXCEPT !.playState = "WHISTLE"]

endPlay(r, endX) ==
    IF r.playState # "PLAY_ACTIVE" /\ r.playState # "KICKOFF" THEN r
    ELSE IF r.playState = "KICKOFF" THEN startNewDrive(r, endX)
    ELSE
      LET r1 == [r EXCEPT !.lineOfScrimmage = endX]
      IN  IF isTouchdown(r1.lineOfScrimmage) THEN scoreTouchdown(r1)
          ELSE IF isSafety(r1.lineOfScrimmage) THEN scoreSafety(r1)
          ELSE IF r1.lineOfScrimmage >= r1.firstDownLine
               THEN [calculateFirstDownLine(
                        [r1 EXCEPT !.down = 1, !.distanceToFirst = FirstDownDistance])
                     EXCEPT !.playState = "WHISTLE"]
               ELSE LET r2 == nextDown(r1)
                    IN  IF r2.down > 4 THEN turnoverOnDowns(r2)
                        ELSE [r2 EXCEPT !.playState = "WHISTLE"]

\* history records
FbOp(op, x, call, result) ==
    [op |-> op, x |-> x, call |-> call, result |-> result,
     pre |-> footballRules.playState]

NoRun == [n |-> 0, poss |-> "home"]

\* a play that ends outside both end zones and short of the first-down line
IsShortPlay(r, endX) ==
    /\ r.playState = "PLAY_ACTIVE"
    /\ ~isTouchdown(endX) /\ ~isSafety(endX)
    /\ endX < r.firstDownLine

\* consecutive short plays since a drive that started with down = 1
NextRun(r, endX) ==
    IF r.playState # "PLAY_ACTIVE" /\ r.playState # "KICKOFF" THEN shortRun
    ELSE IF ~IsShortPlay(r, endX) THEN NoRun
    ELSE IF r.down = 1 THEN [n |-> 1, poss |-> r.possession]
    ELSE IF shortRun.n \in 1..3 THEN [shortRun EXCEPT !.n = @ + 1]
    ELSE NoRun

PerformCoinFlip(call, result) ==
    /\ footballRules' = performCoinFlip(footballRules, call, result)
    /\ fbLast' = FbOp("performCoinFlip", 0, call, result)
    /\ shortRun' = NoRun
    /\ UNCHANGED nonFbVars

SetupKickoff ==
    /\ footballRules' = setupKickoff(footballRules)
    /\ fbLast' = FbOp("setupKickoff", 0, "none", "none")
    /\ shortRun' = NoRun
    /\ UNCHANGED nonFbVars

StartNewDrive(startX) ==
    /\ footballRules' = startNewDrive(footballRules, startX)
    /\ fbLast' = FbOp("startNewDrive", startX, "none", "none")
    /\ shortRun' = NoRun
    /\ UNCHANGED nonFbVars

SnapBall ==
    /\ footballRules' = snapBall(footballRules)
    /\ fbLast' = FbOp("snapBall", 0, "none", "none")
    /\ UNCHANGED shortRun
    /\ UNCHANGED nonFbVars

EndPlay(endX) ==
    /\ endPlay(footballRules, endX).scoreHome
         + endPlay(footballRules, endX).scoreAway <= MaxScore
    /\ footballRules' = endPlay(footballRules, endX)
    /\ fbLast' = FbOp("endPlay", endX, "none", "none")
    /\ shortRun' = NextRun(footballRules, endX)
    /\ UNCHANGED nonFbVars

ResetGame ==
    /\ footballRules' = resetGame(footballRules)
    /\ fbLast' = FbOp("resetGame", 0, "none", "none")
    /\ shortRun' = NoRun
    /\ UNCHANGED nonFbVars

\* GamePhysics.update: the kickoff kick puts the play in motion
KickoffKick ==
    /\ footballRules.playState = "KICKOFF"
    /\ footballRules' = [footballRules EXCEPT !.playState = "PLAY_ACTIVE"]
    /\ fbLast' = FbOp("kickoffKick", 0, "none", "none")
    /\ shortRun' = NoRun
    /\ UNCHANGED nonFbVars

\* GamePhysics.update: after the whistle the teams line up again
WhistleToPreSnap ==
    /\ footballRules.playState = "WHISTLE"
    /\ footballRules' = [footballRules EXCEPT !.playState = "PRE_SNAP"]
    /\ fbLast' = FbOp("whistleToPreSnap", 0, "none", "none")
    /\ UNCHANGED shortRun
    /\ UNCHANGED nonFbVars

(***************************************************************************)
(* Pitch: SoccerRules                                                      *)
(***************************************************************************)

ScPlayState == {"KICKOFF", "PLAYING", "GOAL_SCORED", "OUT_OF_BOUNDS", "FOUL",
                "CORNER_KICK", "GOAL_KICK", "FREE_KICK", "PENALTY",
                "HALFTIME", "GAME_OVER"}

ExitSides == {"top", "bottom", "left", "right"}

\* bound on the goals of one match (both teams together)
MaxGoals == 1

\* bound on the match clock
MaxTime == 360

\* bound on the number of pending delayed kickoffs
MaxTimers == 1

\* the small clock increment tried next to a whole half
TimeStep == 90

halfDuration == 180

Deltas == {TimeStep, halfDuration}

CentreSpot == [x |-> 0, y |-> 0]

\* positions tried: the centre spot, a spot inside the left penalty area, and
\* a spot off the pitch behind the right goal line
Positions ==
    {[x |-> 0, y |-> 0], [x |-> -50, y |-> 0], [x |-> 61, y |-> 20]}

SoccerRulesInit ==
    [playState |-> "KICKOFF", possession |-> "home",
     score |-> [home |-> 0, away |-> 0], matchTime |-> 0, currentHalf |-> 1,
     restartPosition |-> CentreSpot, lastTouch |-> "home"]

resetMatch(r) ==
    [r EXCEPT !.playState = "KICKOFF", !.possession = "home",
              !.score = [home |-> 0, away |-> 0], !.matchTime = 0,
              !.currentHalf = 1, !.restartPosition = CentreSpot]

startKickoff(r, kickingTeam) ==
    [r EXCEPT !.playState = "KICKOFF", !.possession = kickingTeam,
              !.restartPosition = CentreSpot]

startPlay(r) ==
    IF r.playState # "PLAYING" THEN [r EXCEPT !.playState = "PLAYING"] ELSE r

\* the synchronous part of scoreGoal; the delayed kickoff is queued by ScoreGoal
scoreGoal(r, scoringTeam) ==
    LET r1 == IF scoringTeam = "home" THEN [r EXCEPT !.score.home = @ + 1]
                                      ELSE [r EXCEPT !.score.away = @ + 1]
    IN  [r1 EXCEPT !.playState = "GOAL_SCORED"]

\* slip: corner and goal kick exchanged
ballOutOfBounds_swapped(r, lastTouchedBy, exitSide, position) ==
    LET restartTeam == IF lastTouchedBy = "home" THEN "away" ELSE "home"
        r1 == [r EXCEPT !.lastTouch = lastTouchedBy, !.restartPosition = position,
                        !.possession = restartTeam]
        isCorner == \/ (exitSide = "left" /\ lastTouchedBy = "home")
                    \/ (exitSide = "right" /\ lastTouchedBy = "away")
    IN  IF exitSide = "left" \/ exitSide = "right"
        THEN IF isCorner THEN [r1 EXCEPT !.playState = "CORNER_KICK"]
                         ELSE [r1 EXCEPT !.playState = "GOAL_KICK"]
        ELSE [r1 EXCEPT !.playState = "OUT_OF_BOUNDS"]

ballOutOfBounds(r, lastTouchedBy, exitSide, position) ==
    LET restartTeam == IF lastTouchedBy = "home" THEN "away" ELSE "home"
        r1 == [r EXCEPT !.lastTouch = lastTouchedBy, !.restartPosition = position,
                        !.possession = restartTeam]
        isCorner == \/ (exitSide = "left" /\ lastTouchedBy = "away")
                    \/ (exitSide = "right" /\ lastTouchedBy = "home")
    IN  IF exitSide = "left" \/ exitSide = "right"
        THEN IF isCorner THEN [r1 EXCEPT !.playState = "CORNER_KICK"]
                         ELSE [r1 EXCEPT !.playState = "GOAL_KICK"]
        ELSE [r1 EXCEPT !.playState = "OUT_OF_BOUNDS"]

\* slip: the penalty-box flag ignored, every foul a free kick
callFoul_alwaysFreeKick(r, foulingTeam, position, inPenaltyBox) ==
    LET fouledTeam == IF foulingTeam = "home" THEN "away" ELSE "home"
    IN  [r EXCEPT !.possession = fouledTeam, !.restartPosition = position,
                  !.playState = "FREE_KICK"]

callFoul(r, foulingTeam, position, inPenaltyBox) ==
    LET fouledTeam == IF foulingTeam = "home" THEN "away" ELSE "home"
        r1 == [r EXCEPT !.possession = fouledTeam, !.restartPosition = position]
    IN  IF inPenaltyBox THEN [r1 EXCEPT !.playState = "PENALTY"]
                        ELSE [r1 EXCEPT !.playState = "FREE_KICK"]

\* slip: the thresholds compared with > instead of >=
updateTime_strict(r, deltaSeconds) ==
    IF r.playState = "PLAYING"
    THEN LET r1 == [r EXCEPT !.matchTime = @ + deltaSeconds]
         IN  IF r1.currentHalf = 1 /\ r1.matchTime > halfDuration
             THEN [r1 EXCEPT !.playState = "HALFTIME"]
             ELSE IF r1.currentHalf = 2 /\ r1.matchTime > halfDuration * 2
                  THEN [r1 EXCEPT !.playState = "GAME_OVER"]
                  ELSE r1
    ELSE r

\* slip: the clock runs in every phase
updateTime_unguarded(r, deltaSeconds) ==
    LET r1 == [r EXCEPT !.matchTime = @ + deltaSeconds]
    IN  IF r1.currentHalf = 1 /\ r1.matchTime >= halfDuration
        THEN [r1 EXCEPT !.playState = "HALFTIME"]
        ELSE IF r1.currentHalf = 2 /\ r1.matchTime >= halfDuration * 2
             THEN [r1 EXCEPT !.playState = "GAME_OVER"]
             ELSE r1

updateTime(r, deltaSeconds) ==
    IF r.playState = "PLAYING"
    THEN LET r1 == [r EXCEPT !.matchTime = @ + deltaSeconds]
         IN  IF r1.currentHalf = 1 /\ r1.matchTime >= halfDuration
             THEN [r1 EXCEPT !.playState = "HALFTIME"]
             ELSE IF r1.currentHalf = 2 /\ r1.matchTime >= halfDuration * 2
                  THEN [r1 EXCEPT !.playState = "GAME_OVER"]
                  ELSE r1
    ELSE r

startSecondHalf(r) == startKickoff([r EXCEPT !.currentHalf = 2], "away")

\* SoccerRules.isInPenaltyBox with its default field size (120 x 54)
isInPenaltyBox(x, y) ==
    \/ (x < -60 + 18 /\ Abs(y) < 20)
    \/ (x > 60 - 18 /\ Abs(y) < 20)

\* SoccerField.isGoal: the team that scores when the ball is at (x, y)
isGoal(x, y) ==
    IF Abs(y) < 4
    THEN IF x <= -60 THEN "away" ELSE IF x >= 60 THEN "home" ELSE "none"
    ELSE "none"

ScOp(op, team, side, pos, flag, d) ==
    [op |-> op, team |-> team, side |-> side, pos |-> pos, flag |-> flag,
     d |-> d, pre |-> soccerRules.playState]

ResetMatch ==
    /\ soccerRules' = resetMatch(soccerRules)
    /\ scLast' = ScOp("resetMatch", "none", "none", CentreSpot, FALSE, 0)
    /\ UNCHANGED timers
    /\ UNCHANGED nonScVars

StartKickoff(kickingTeam) ==
    /\ soccerRules' = startKickoff(soccerRules, kickingTeam)
    /\ scLast' = ScOp("startKickoff", kickingTeam, "none", CentreSpot, FALSE, 0)
    /\ UNCHANGED timers
    /\ UNCHANGED nonScVars

StartPlay ==
    /\ soccerRules' = startPlay(soccerRules)
    /\ scLast' = ScOp("startPlay", "none", "none", CentreSpot, FALSE, 0)
    /\ UNCHANGED timers
    /\ UNCHANGED nonScVars

ScoreGoal(scoringTeam) ==
    /\ soccerRules.score.home + soccerRules.score.away < MaxGoals
    /\ Len(timers) < MaxTimers
    /\ soccerRules' = scoreGoal(soccerRules, scoringTeam)
    /\ timers' = Append(timers, Other(scoringTeam))
    /\ scLast' = ScOp("scoreGoal", scoringTeam, "none", CentreSpot, FALSE, 0)
    /\ UNCHANGED nonScVars

\* the callback of the oldest pending setTimeout runs
TimerFires ==
    /\ timers # << >>
    /\ soccerRules' = startKickoff(soccerRules, Head(timers))
    /\ timers' = Tail(timers)
    /\ scLast' = ScOp("timer", Head(timers), "none", CentreSpot, FALSE, 0)
    /\ UNCHANGED nonScVars

BallOutOfBounds(lastTouchedBy, exitSide, position) ==
    /\ soccerRules' = ballOutOfBounds(soccerRules, lastTouchedBy, exitSide, position)
    /\ scLast' = ScOp("ballOutOfBounds", lastTouchedBy, exitSide, position, FALSE, 0)
    /\ UNCHANGED timers
    /\ UNCHANGED nonScVars

CallFoul(foulingTeam, position, inPenaltyBox) ==
    /\ soccerRules' = callFoul(soccerRules, foulingTeam, position, inPenaltyBox)
    /\ scLast' = ScOp("callFoul", foulingTeam, "none", position, inPenaltyBox, 0)
    /\ UNCHANGED timers
    /\ UNCHANGED nonScVars

UpdateTime(deltaSeconds) ==
    /\ soccerRules.matchTime + deltaSeconds <= MaxTime
    /\ soccerRules' = updateTime(soccerRules, deltaSeconds)
    /\ scLast' = ScOp("updateTime", "none", "none", CentreSpot, FALSE, deltaSeconds)
    /\ UNCHANGED timers
    /\ UNCHANGED nonScVars

StartSecondHalf ==
    /\ soccerRules' = startSecondHalf(soccerRules)
    /\ scLast' = ScOp("startSecondHalf", "none", "none", CentreSpot, FALSE, 0)
    /\ UNCHANGED timers
    /\ UNCHANGED nonScVars

(***************************************************************************)
(* Pitch ball: SoccerBall                                                  *)
(*                                                                         *)
(* Lengths, speeds, powers and spins are fixed-point numbers, Unit to 1.0; *)
(* products are rounded toward zero.                                       *)
(***************************************************************************)

Unit == 1000

\* a * num / den, rounded toward zero
TMul(a, num, den) ==
    IF a >= 0 THEN (a * num) \div den ELSE -(((-a) * num) \div den)

RECURSIVE SqrtSearch(_, _, _)
SqrtSearch(n, lo, hi) ==
    IF lo >= hi THEN lo
    ELSE LET mid == (lo + hi + 1) \div 2
         IN  IF mid * mid <= n THEN SqrtSearch(n, mid, hi)
                               ELSE SqrtSearch(n, lo, mid - 1)

\* floor of the square root
ISqrt(n) == SqrtSearch(n, 0, 46340)

Vec(x, y, z) == [x |-> x, y |-> y, z |-> z]

ZeroVec == Vec(0, 0, 0)

\* squared length of the horizontal part, and of the whole vector
HLenSq(v) == v.x * v.x + v.y * v.y

LenSq(v) == v.x * v.x + v.y * v.y + v.z * v.z

\* THREE.Vector3.normalize: divideScalar(length() || 1)
normalize(v) ==
    LET len == ISqrt(LenSq(v))
    IN  IF len = 0 THEN v
        ELSE Vec(TMul(v.x, Unit, len), TMul(v.y, Unit, len), TMul(v.z, Unit, len))

\* THREE.Vector2.normalize on the x/y part: divideScalar(length() || 1)
normalize2D(v) ==
    LET len == ISqrt(HLenSq(v))
    IN  IF len = 0 THEN Vec(v.x, v.y, 0)
        ELSE Vec(TMul(v.x, Unit, len), TMul(v.y, Unit, len), 0)

\* the constants of the class
gravity == 15

stopSpeed == 5

bounceMinSpeed == 20

liftAirborne == 50

\* Math.random() - 0.5 scaled by 0.3 on a bounce: the two ends of the range
BounceSpins == {-150, 150}

SoccerBallInit ==
    [position |-> ZeroVec, velocity |-> ZeroVec, spin |-> ZeroVec,
     isGrounded |-> TRUE, height |-> 0, airTime |-> 0, lastTouchedBy |-> "none"]

\* update, steps 1 and 2: gravity while airborne, Magnus force of the spin
applyGravityAndMagnus(b, dt) ==
    LET b1 == IF ~b.isGrounded
              THEN [b EXCEPT !.velocity.z = @ - gravity, !.airTime = @ + dt]
              ELSE b
        s == b1.spin
        v == b1.velocity
    IN  IF LenSq(s) > 10 * 10
        THEN [b1 EXCEPT !.velocity.x = @ + TMul(s.y * v.z - s.z * v.y, 3, 1000 * Unit),
                        !.velocity.y = @ + TMul(s.z * v.x - s.x * v.z, 3, 1000 * Unit)]
        ELSE b1

\* update, step 3: drag against the velocity, 0.015 x (1.0 | 0.6) x speed^2
applyDrag(b) ==
    LET v == b.velocity
        total == ISqrt(LenSq(v))
        dragMult == IF b.isGrounded THEN 10 ELSE 6
        drag == ((LenSq(v) \div Unit) * 15 * dragMult) \div 10000
        n == normalize(v)
    IN  IF LenSq(v) > 10 * 10
        THEN [b EXCEPT !.velocity = Vec(v.x - TMul(n.x, drag, Unit),
                                        v.y - TMul(n.y, drag, Unit),
                                        v.z - TMul(n.z, drag, Unit))]
        ELSE b

\* slip: ground friction left out
applyFriction_none(b) == b

\* update, step 4: ground friction on the horizontal velocity
applyFriction(b) ==
    IF b.isGrounded
    THEN [b EXCEPT !.velocity.x = TMul(@, 92, 100), !.velocity.y = TMul(@, 92, 100)]
    ELSE b

\* update, steps 6 and 7: move, then land, bounce or leave the ground
moveAndLand(b, rnd) ==
    LET b1 == [b EXCEPT !.position = Vec(b.position.x + b.velocity.x,
                                         b.position.y + b.velocity.y,
                                         b.position.z + b.velocity.z)]
    IN  IF b1.position.z <= 0
        THEN IF ~b1.isGrounded /\ Abs(b1.velocity.z) > bounceMinSpeed
             THEN [b1 EXCEPT !.position.z = 0,
                             !.velocity = Vec(TMul(b1.velocity.x, 85, 100),
                                              TMul(b1.velocity.y, 85, 100),
                                              TMul(-b1.velocity.z, 6, 10)),
                             !.spin.z = @ + rnd]
             ELSE [b1 EXCEPT !.position.z = 0, !.velocity.z = 0,
                             !.isGrounded = TRUE, !.airTime = 0]
        ELSE [b1 EXCEPT !.isGrounded = FALSE]

\* SoccerBall.update(dt); rnd is the random spin a bounce would add
update(b, dt, rnd) ==
    LET b1 == applyGravityAndMagnus(b, dt)
        horizontalSpeedSq == HLenSq(b1.velocity)
        b2 == applyFriction(applyDrag(b1))
        b3 == [b2 EXCEPT !.spin = Vec(TMul(@.x, 98, 100), TMul(@.y, 98, 100),
                                      TMul(@.z, 98, 100))]
        b4 == moveAndLand(b3, rnd)
        b5 == [b4 EXCEPT !.height = IF b4.position.z > 0 THEN b4.position.z ELSE 0]
        b6 == IF b5.isGrounded /\ horizontalSpeedSq < stopSpeed * stopSpeed
              THEN [b5 EXCEPT !.velocity = ZeroVec] ELSE b5
    IN  IF LenSq(b6.spin) < 1 THEN [b6 EXCEPT !.spin = ZeroVec] ELSE b6

kick(b, direction, power, spinAmount, kicker, lift) ==
    LET dir2D == normalize2D(direction)
        b1 == [b EXCEPT !.velocity = Vec(TMul(dir2D.x, power, Unit),
                                         TMul(dir2D.y, power, Unit),
                                         TMul(TMul(lift, power, Unit), 8, 10)),
                        !.lastTouchedBy = kicker]
        b2 == IF Abs(spinAmount) > 10 THEN [b1 EXCEPT !.spin = Vec(0, 0, spinAmount)]
                                      ELSE b1
    IN  IF lift > liftAirborne THEN [b2 EXCEPT !.isGrounded = FALSE, !.airTime = 0]
                               ELSE b2

PassTypes == {"ground", "lob", "chip"}

\* pass of the first class: power min(1.8, 0.3 + 0.04 x distance)
pass(b, targetPosition, passType, passer) ==
    LET direction == Vec(targetPosition.x - b.position.x,
                         targetPosition.y - b.position.y,
                         targetPosition.z - b.position.z)
        distance == ISqrt(LenSq(direction))
        power == Min(1800, 300 + TMul(distance, 4, 100))
        lift == IF passType = "lob" THEN 600 + TMul(distance, 2, 100)
                ELSE IF passType = "chip" THEN 300 ELSE 0
    IN  kick(b, normalize(direction), power, 0, passer, lift)

\* pass of the second class: power min(0.7, 0.3 + 0.02 x distance)
passSecond(b, targetPosition, passType, passer) ==
    LET direction == Vec(targetPosition.x - b.position.x,
                         targetPosition.y - b.position.y,
                         targetPosition.z - b.position.z)
        distance == ISqrt(LenSq(direction))
        power == Min(700, 300 + TMul(distance, 2, 100))
        lift == IF passType = "lob" THEN 600 + TMul(distance, 2, 100)
                ELSE IF passType = "chip" THEN 300 ELSE 0
    IN  kick(b, normalize(direction), power, 0, passer, lift)

\* shoot of the first class: shotPower = power x 2.5
shoot(b, direction, power, curve, shooter, lift) ==
    kick(b, direction, TMul(power, 25, 10), curve, shooter, lift)

\* shoot of the second class: shotPower = power x 0.4
shootSecond(b, direction, power, curve, shooter, lift) ==
    kick(b, direction, TMul(power, 4, 10), curve, shooter, lift)

reset(b, x, y) ==
    [b EXCEPT !.position = Vec(x, y, 0), !.velocity = ZeroVec, !.spin = ZeroVec,
              !.height = 0, !.isGrounded = TRUE, !.airTime = 0,
              !.lastTouchedBy = "none"]

\* inputs tried
Directions == {Vec(1000, 0, 0), Vec(-600, 800, 0), ZeroVec}

Powers == {400, 1000}

Spins == {0, 300}

Lifts == {0, 100}

\* a pass is tried as a target with a pass type
PassInputs == {<<Vec(10000, 0, 0), "ground">>, <<Vec(-3000, 4000, 0), "chip">>,
               <<ZeroVec, "ground">>, <<ZeroVec, "lob">>}

\* the frame time handed to update, in milliseconds
FrameDt == 16

\* the ball rolls: on the ground, no vertical motion, some horizontal speed
Rolling(b) ==
    /\ b.isGrounded /\ b.position.z = 0 /\ b.velocity.z = 0
    /\ HLenSq(b.velocity) > 0

BlOp(op, dir, power, spin, lift) ==
    [op |-> op, dir |-> dir, power |-> power, spin |-> spin, lift |-> lift]

\* impulses are tried on a ball that lies still on the centre spot
AtSpot ==
    /\ ball.position = ZeroVec /\ ball.velocity = ZeroVec /\ ball.spin = ZeroVec
    /\ ball.isGrounded

BallUpdate(rnd) ==
    /\ ball' = update(ball, FrameDt, rnd)
    /\ ballLast' = BlOp("update", ZeroVec, 0, 0, 0)
    /\ rollTicks' = IF Rolling(ball) THEN rollTicks + 1 ELSE 0
    /\ UNCHANGED ballDef
    /\ UNCHANGED nonBlVars

BallKick(direction, power, spinAmount, kicker, lift) ==
    /\ AtSpot
    /\ ball' = kick(ball, direction, power, spinAmount, kicker, lift)
    /\ ballLast' = BlOp("kick", direction, power, spinAmount, lift)
    /\ rollTicks' = 0
    /\ UNCHANGED ballDef
    /\ UNCHANGED nonBlVars

BallPass(targetPosition, passType, passer) ==
    /\ AtSpot
    /\ ball' = IF ballDef = "first" THEN pass(ball, targetPosition, passType, passer)
                                    ELSE passSecond(ball, targetPosition, passType, passer)
    /\ ballLast' = BlOp("pass", Vec(targetPosition.x - ball.position.x,
                                    targetPosition.y - ball.position.y,
                                    targetPosition.z - ball.position.z), 0, 0, 0)
    /\ rollTicks' = 0
    /\ UNCHANGED ballDef
    /\ UNCHANGED nonBlVars

BallShoot(direction, power, curve, shooter, lift) ==
    /\ AtSpot
    /\ ball' = IF ballDef = "first" THEN shoot(ball, direction, power, curve, shooter, lift)
                                    ELSE shootSecond(ball, direction, power, curve, shooter, lift)
    /\ ballLast' = BlOp("shoot", direction, power, curve, lift)
    /\ rollTicks' = 0
    /\ UNCHANGED ballDef
    /\ UNCHANGED nonBlVars

BallReset ==
    /\ ball' = reset(ball, 0, 0)
    /\ ballLast' = BlOp("reset", ZeroVec, 0, 0, 0)
    /\ rollTicks' = 0
    /\ UNCHANGED ballDef
    /\ UNCHANGED nonBlVars

(***************************************************************************)
(* Gridiron tackles: TackleSystem                                          *)
(***************************************************************************)

TACKLE_RANGE == 1200

TackleEntity(position, velocity, mass) ==
    [position |-> position, velocity |-> velocity, mass |-> mass]

Sub(a, b) == Vec(a.x - b.x, a.y - b.y, a.z - b.z)

\* a.dot(b) of two unit vectors
Dot(a, b) == TMul(a.x, b.x, Unit) + TMul(a.y, b.y, Unit) + TMul(a.z, b.z, Unit)

Max(a, b) == IF a > b THEN a ELSE b

\* mass || 1.0
MassOf(e) == IF e.mass = 0 THEN Unit ELSE e.mass

\* calculateApproachAngle, as the clamped cosine of the angle it returns
\* (the angle is 0 for a carrier standing still: cosine 1)
calculateApproachAngle(tackler, ballCarrier) ==
    IF LenSq(ballCarrier.velocity) < 10 * 10 THEN Unit
    ELSE LET tackleDir == normalize(Sub(ballCarrier.position, tackler.position))
             carrierDir == normalize(ballCarrier.velocity)
         IN  Max(-Unit, Min(Unit, Dot(tackleDir, carrierDir)))

\* slip: the product is returned as it is
calculateTacklePower_unclamped(cosAngle, closingSpeed, tacklerMass, carrierMass) ==
    LET angleMod == IF 2 * cosAngle < -Unit THEN 500
                    ELSE IF 2 * cosAngle < Unit THEN 750 ELSE 1000
        speedMod == Min(1500, 500 + closingSpeed * 2)
        massMod == Min(1500, Max(500, TMul(tacklerMass, Unit, carrierMass)))
    IN  TMul(TMul(TMul(angleMod, speedMod, Unit), massMod, Unit), 5, 10)

\* angle > 120 is cosine < -0.5, angle > 60 is cosine < 0.5
calculateTacklePower(cosAngle, closingSpeed, tacklerMass, carrierMass) ==
    LET angleMod == IF 2 * cosAngle < -Unit THEN 500
                    ELSE IF 2 * cosAngle < Unit THEN 750 ELSE 1000
        speedMod == Min(1500, 500 + closingSpeed * 2)
        massMod == Min(1500, Max(500, TMul(tacklerMass, Unit, carrierMass)))
        power == TMul(TMul(TMul(angleMod, speedMod, Unit), massMod, Unit), 5, 10)
    IN  Min(Unit, Max(0, power))

calculateBreakTackleChance(ballCarrier, tacklePower) ==
    LET speed == ISqrt(LenSq(ballCarrier.velocity))
        mass == MassOf(ballCarrier)
        carrierPower == 100 + TMul(speed, 2, 10) + TMul(mass - Unit, 1, 10)
        breakChance == TMul(carrierPower, Unit - tacklePower, Unit)
    IN  Min(500, Max(0, breakChance))

calculateKnockback(tackler, ballCarrier, strength) ==
    LET knockDir == normalize(Sub(ballCarrier.position, tackler.position))
    IN  Vec(TMul(knockDir.x, strength, Unit), TMul(knockDir.y, strength, Unit),
            TMul(knockDir.z, strength, Unit))

TackleResult(success, tackleType, knockbackForce, ballCarrierSlowdown) ==
    [success |-> success, tackleType |-> tackleType,
     knockbackForce |-> knockbackForce, ballCarrierSlowdown |-> ballCarrierSlowdown]

\* attemptTackle with what it computed on the way: the result, the tackle
\* power and break chance (-1 when not computed), and whether Math.random()
\* was called; roll is the value Math.random() would return
attemptTackle(tackler, ballCarrier, roll) ==
    LET distanceSq == LenSq(Sub(tackler.position, ballCarrier.position))
        approachAngle == calculateApproachAngle(tackler, ballCarrier)
        closingSpeed == ISqrt(LenSq(Sub(tackler.velocity, ballCarrier.velocity)))
        tacklePower == calculateTacklePower(approachAngle, closingSpeed,
                                            MassOf(tackler), MassOf(ballCarrier))
        breakChance == calculateBreakTackleChance(ballCarrier, tacklePower)
        Computed(res) == [result |-> res, tacklePower |-> tacklePower,
                          breakChance |-> breakChance, rolled |-> TRUE]
    IN  IF distanceSq > TACKLE_RANGE * TACKLE_RANGE
        THEN [result |-> TackleResult(FALSE, "missed", ZeroVec, 0),
              tacklePower |-> -1, breakChance |-> -1, rolled |-> FALSE]
        ELSE IF roll < breakChance
        THEN Computed(TackleResult(FALSE, "stumble",
                                   calculateKnockback(tackler, ballCarrier, 200), 300))
        ELSE IF tacklePower > 700
        THEN Computed(TackleResult(TRUE, "full",
                                   calculateKnockback(tackler, ballCarrier, 500), 1000))
        ELSE IF tacklePower > 400
        THEN Computed(TackleResult(TRUE, "trip",
                                   calculateKnockback(tackler, ballCarrier, 300), 800))
        ELSE Computed(TackleResult(TRUE, "stumble",
                                   calculateKnockback(tackler, ballCarrier, 100), 500))

\* inputs tried: the ball carrier stands on the origin
TacklerPositions ==
    {Vec(-1000, 0, 0), Vec(0, 1000, 0), ZeroVec, Vec(1200, 0, 0), Vec(1201, 0, 0)}

TacklerVelocities == {ZeroVec, Vec(600, 0, 0)}

CarrierVelocities == {ZeroVec, Vec(300, 0, 0), Vec(-2000, 1500, 0)}

\* 0 stands for a mass that is not set
TacklerMasses == {0, 2500}

CarrierMasses == {0, 600, 2500}

\* values of Math.random(), which lies in [0, 1)
Rolls == {0, 499}

AttemptTackle(tackler, ballCarrier, roll) ==
    /\ tackle' = [tackler |-> tackler, ballCarrier |-> ballCarrier, roll |-> roll,
                  out |-> attemptTackle(tackler, ballCarrier, roll)]
    /\ UNCHANGED nonTkVars

NextTackle ==
    \E p \in TacklerPositions, tv \in TacklerVelocities, cv \in CarrierVelocities,
       tm \in TacklerMasses, cm \in CarrierMasses, roll \in Rolls :
         AttemptTackle(TackleEntity(p, tv, tm), TackleEntity(ZeroVec, cv, cm), roll)

(***************************************************************************)
(* Pitch players' AI: SoccerAI                                             *)
(*                                                                         *)
(* Pitch coordinates are in tenths of a unit, times in milliseconds.       *)
(* smoothMovement is left out: it writes currentVelocity and the player's  *)
(* velocity only, and nothing update() decides reads either.               *)
(***************************************************************************)

AIState == {"IDLE", "CHASE_BALL", "POSITION", "SUPPORT_ATTACK", "DEFEND",
            "MARK_PLAYER", "GOALKEEPER_POSITION"}

PlayerRole == {"GOALKEEPER", "DEFENDER", "MIDFIELDER", "ATTACKER"}

SoccerPosition == {"GK", "CB", "LB", "RB", "CDM", "CM", "CAM", "LM", "RM",
                   "LW", "RW", "ST"}

FORMATION_433 ==
    [p \in SoccerPosition |->
       CASE p = "GK" -> [x |-> -550, y |-> 0]
         [] p = "LB" -> [x |-> -400, y |-> -250]
         [] p = "CB" -> [x |-> -450, y |-> -80]
         [] p = "RB" -> [x |-> -400, y |-> 250]
         [] p = "CDM" -> [x |-> -300, y |-> 0]
         [] p = "CM" -> [x |-> -150, y |-> 0]
         [] p = "CAM" -> [x |-> -50, y |-> 0]
         [] p = "LM" -> [x |-> -200, y |-> -200]
         [] p = "RM" -> [x |-> -200, y |-> 200]
         [] p = "LW" -> [x |-> 100, y |-> -250]
         [] p = "RW" -> [x |-> 100, y |-> 250]
         [] p = "ST" -> [x |-> 200, y |-> 0]]

getRole(pos) ==
    CASE pos = "GK" -> "GOALKEEPER"
      [] pos \in {"CB", "LB", "RB"} -> "DEFENDER"
      [] pos \in {"CDM", "CM", "CAM", "LM", "RM"} -> "MIDFIELDER"
      [] pos \in {"LW", "RW", "ST"} -> "ATTACKER"

\* initializeRoleParameters: chaseRange, and positioningStrictness in tenths
chaseRange(role) ==
    CASE role = "GOALKEEPER" -> 80
      [] role = "DEFENDER" -> 120
      [] role = "MIDFIELDER" -> 180
      [] role = "ATTACKER" -> 200

positioningStrictness(role) ==
    CASE role = "GOALKEEPER" -> 9
      [] role = "DEFENDER" -> 7
      [] role = "MIDFIELDER" -> 5
      [] role = "ATTACKER" -> 3

decisionInterval == 400

supportInterval == 2500

\* the state of a new SoccerAI for a player; off is the support offset that
\* randomizeSupportPosition drew
SoccerAIInit(pos, team, playerPosition, off) ==
    [state |-> "POSITION",
     player |-> [soccerPosition |-> pos, team |-> team, position |-> playerPosition],
     role |-> getRole(pos),
     formationPos |-> IF team = "away"
                      THEN [x |-> -FORMATION_433[pos].x, y |-> FORMATION_433[pos].y]
                      ELSE FORMATION_433[pos],
     ballPosition |-> ZeroVec, isAttacking |-> FALSE, targetPosition |-> ZeroVec,
     decisionTimer |-> 0, supportOffset |-> off, supportTimer |-> 0]

\* no player
null == << >>

\* a.distanceTo(b) < d
Nearer(a, b, d) == LenSq(Sub(a, b)) < d * d

determineState(ai, teamHasBall, nearestOpponent) ==
    LET pos == ai.player.position
        ballNear(d) == Nearer(pos, ai.ballPosition, d)
    IN  [ai EXCEPT !.state =
          CASE ai.role = "GOALKEEPER" -> "GOALKEEPER_POSITION"
            [] ai.role = "DEFENDER" ->
                 IF ~teamHasBall
                 THEN IF 10 * 10 * LenSq(Sub(pos, ai.ballPosition))
                           < (chaseRange(ai.role) * 6) * (chaseRange(ai.role) * 6)
                      THEN "CHASE_BALL"
                      ELSE IF nearestOpponent # null /\ Nearer(pos, nearestOpponent[1], 80)
                      THEN "MARK_PLAYER"
                      ELSE "DEFEND"
                 ELSE "POSITION"
            [] ai.role = "MIDFIELDER" ->
                 IF teamHasBall
                 THEN IF ballNear(250) THEN "SUPPORT_ATTACK" ELSE "POSITION"
                 ELSE IF ballNear(chaseRange(ai.role)) THEN "CHASE_BALL" ELSE "DEFEND"
            [] ai.role = "ATTACKER" ->
                 IF teamHasBall THEN "SUPPORT_ATTACK"
                 ELSE IF ballNear(chaseRange(ai.role) \div 2) THEN "CHASE_BALL"
                 ELSE "POSITION"]

calculateGoalkeeperPosition(ai) ==
    LET goalX == IF ai.player.team = "home" THEN -580 ELSE 580
        targetY == Max(-80, Min(80, TMul(ai.ballPosition.y, 4, 10)))
        forward == IF Nearer(ai.player.position, ai.ballPosition, 200) THEN 30 ELSE 0
        targetX == IF ai.player.team = "home" THEN goalX + forward ELSE goalX - forward
    IN  Vec(targetX, targetY, 0)

calculateFormationTarget(ai) ==
    LET x0 == ai.formationPos.x
                + TMul(ai.ballPosition.x, 5 * (10 - positioningStrictness(ai.role)), 100)
        targetY == ai.formationPos.y + TMul(ai.ballPosition.y, 3, 10)
        goalX == IF ai.player.team = "home" THEN -600 ELSE 600
        maxX == IF ai.player.team = "home" THEN 100 ELSE -100
        x1 == Max(Min(x0, Max(goalX, maxX)), Min(goalX, maxX))
        targetX == IF ai.role # "DEFENDER" THEN x0
                   ELSE IF ai.player.team = "home" THEN Min(x1, 0) ELSE Max(x1, 0)
    IN  Vec(targetX, targetY, 0)

calculateSupportTarget(ai) ==
    LET forwardDir == IF ai.player.team = "home" THEN 1 ELSE -1
        forwardBias == IF ai.role = "ATTACKER" THEN 200 * forwardDir ELSE 50 * forwardDir
    IN  Vec(Max(-550, Min(550, ai.ballPosition.x + ai.supportOffset.x + forwardBias)),
            Max(-350, Min(350, ai.ballPosition.y + ai.supportOffset.y)), 0)

calculateDefendTarget(ai) ==
    LET goalX == IF ai.player.team = "home" THEN -600 ELSE 600
        depth == IF ai.role = "DEFENDER" THEN 3 ELSE 6
    IN  Vec(goalX + TMul(ai.ballPosition.x - goalX, depth, 10),
            TMul(ai.formationPos.y, 5, 10) + TMul(ai.ballPosition.y, 5, 10), 0)

calculateMarkTarget(ai, opponent) ==
    LET goalX == IF ai.player.team = "home" THEN -600 ELSE 600
    IN  Vec(opponent.x + TMul(goalX - opponent.x, 2, 10), opponent.y, 0)

calculateTargetPosition(ai, nearestOpponent) ==
    [ai EXCEPT !.targetPosition =
       CASE ai.state = "GOALKEEPER_POSITION" -> calculateGoalkeeperPosition(ai)
         [] ai.state = "CHASE_BALL" -> ai.ballPosition
         [] ai.state = "POSITION" -> calculateFormationTarget(ai)
         [] ai.state = "SUPPORT_ATTACK" -> calculateSupportTarget(ai)
         [] ai.state = "DEFEND" -> calculateDefendTarget(ai)
         [] ai.state = "MARK_PLAYER" ->
              IF nearestOpponent # null THEN calculateMarkTarget(ai, nearestOpponent[1])
              ELSE ai.targetPosition
         [] OTHER -> ai.targetPosition]

\* SoccerAI.update; off is the offset randomizeSupportPosition would draw
aiUpdate(ai, ballPos, teamHasBall, nearestOpponent, dt, off) ==
    LET a1 == [ai EXCEPT !.ballPosition = ballPos, !.isAttacking = teamHasBall,
                         !.decisionTimer = @ + dt]
        a2 == IF a1.decisionTimer >= decisionInterval
              THEN determineState([a1 EXCEPT !.decisionTimer = 0],
                                  teamHasBall, nearestOpponent)
              ELSE a1
        a3 == [a2 EXCEPT !.supportTimer = @ + dt]
        a4 == IF a3.supportTimer > supportInterval
              THEN [a3 EXCEPT !.supportTimer = 0, !.supportOffset = off]
              ELSE a3
    IN  calculateTargetPosition(a4, nearestOpponent)

\* inputs tried
BallSpots == {ZeroVec, Vec(-500, 100, 0)}

PlayerSpots == {Vec(-550, 0, 0), Vec(-30, 20, 0)}

\* the nearest opponent's position, if there is one
Opponents == {null, <<Vec(-520, 40, 0)>>}

SupportOffsets == {Vec(60, 0, 0), Vec(0, -140, 0)}

AIDts == {200, 400}

\* the players an AI is built for
AIPlayers == {<<"GK", "home">>, <<"GK", "away">>, <<"CB", "home">>,
              <<"CM", "away">>, <<"ST", "home">>}

\* update() after the player has moved to playerPosition
AIUpdate(playerPosition, ballPos, teamHasBall, nearestOpponent, dt, off) ==
    /\ soccerAI' = aiUpdate([soccerAI EXCEPT !.player.position = playerPosition],
                            ballPos, teamHasBall, nearestOpponent, dt, off)
    /\ aiLast' = [nearestOpponent |-> nearestOpponent,
                  decided |-> soccerAI.decisionTimer + dt >= decisionInterval]
    /\ UNCHANGED nonAiVars

NextAI ==
    \E pp \in PlayerSpots, bp \in BallSpots, has \in BOOLEAN, opp \in Opponents,
       dt \in AIDts, off \in SupportOffsets :
         AIUpdate(pp, bp, has, opp, dt, off)

(***************************************************************************)
(* Gridiron loop: GamePhysics.update and GamePhysics.updateFormations      *)
(*                                                                         *)
(* A frame works on a bundle g of the objects it touches: the rules, the   *)
(* GamePhysics fields, the user's player, and the record of what the frame *)
(* did.  Where the players and the ball are, what the clock says and what  *)
(* Math.random() returns are inputs of the frame.  The distance between    *)
(* the user's player and the main defender is taken as it is once both     *)
(* have moved in update(); the blockers' push in updateFormations is not   *)
(* modelled.                                                               *)
(***************************************************************************)

GamePhysicsInit ==
    [currentPlaySelected |-> FALSE, isCarryingBall |-> FALSE,
     kickMeterActive |-> FALSE, kickPower |-> 0, kickPhase |-> "power",
     meterTimer |-> FALSE]

PlayerInit == [isActing |-> FALSE, currentAction |-> ""]

\* Player.playAction: nothing while an action is running
playAction(pl, actionName) ==
    IF pl.isActing THEN pl ELSE [isActing |-> TRUE, currentAction |-> actionName]

Bundle(r, gp, pl) ==
    [rules |-> r, gp |-> gp, player |-> pl, trail |-> << >>, ends |-> << >>]

\* the rules object becomes r2 through the operation named by
SetRules(g, r2, by) ==
    [g EXCEPT !.rules = r2,
              !.trail = IF r2.playState # g.rules.playState
                        THEN Append(@, [from |-> g.rules.playState,
                                        to |-> r2.playState, by |-> by])
                        ELSE @]

\* this.footballRules.endPlay(endX)
CallEndPlay(g, endX) ==
    LET r2 == endPlay(g.rules, endX)
        g2 == SetRules(g, r2, "endPlay")
    IN  [g2 EXCEPT !.ends = Append(@, [pre |-> g.rules.playState, endX |-> endX,
                                      changed |-> r2 # g.rules,
                                      scored |-> r2.scoreHome + r2.scoreAway
                                                   # g.rules.scoreHome + g.rules.scoreAway])]

\* update, lines 60-68
updateCoinFlip(g, in) ==
    IF "KeyH" \in in.keys
    THEN SetRules(g, performCoinFlip(g.rules, "heads", in.coin), "performCoinFlip")
    ELSE IF "KeyT" \in in.keys
    THEN SetRules(g, performCoinFlip(g.rules, "tails", in.coin), "performCoinFlip")
    ELSE g

KickKeyDown(in) == "Space" \in in.keys \/ "KeyK" \in in.keys

\* update, lines 70-139: the user's kick meter, or the AI's kick
updateKickoff(g, in) ==
    IF g.rules.kickingTeam = "home"
    THEN LET g1 == IF ~g.gp.kickMeterActive
                   THEN [g EXCEPT !.gp.kickMeterActive = TRUE, !.gp.kickPhase = "power",
                                  !.gp.kickPower = 0]
                   ELSE g
             enteredAccuracy == g1.gp.kickPhase = "power" /\ ~KickKeyDown(in)
                                  /\ g1.gp.kickPower > 0
             g2 == IF g1.gp.kickPhase = "power"
                   THEN IF KickKeyDown(in) THEN [g1 EXCEPT !.gp.kickPower = in.charge]
                        ELSE IF g1.gp.kickPower > 0
                        THEN [g1 EXCEPT !.gp.kickPhase = "accuracy"]
                        ELSE g1
                   ELSE g1
         IN  IF g2.gp.kickPhase = "accuracy" /\ KickKeyDown(in)
             THEN SetRules([g2 EXCEPT !.gp.kickPhase = "done", !.gp.meterTimer = TRUE],
                           [g2.rules EXCEPT !.playState = "PLAY_ACTIVE"], "kickoffKick")
             ELSE g2
    ELSE IF in.rnd
         THEN SetRules(g, [g.rules EXCEPT !.playState = "PLAY_ACTIVE"], "kickoffKick")
         ELSE g

\* update, lines 373-394: manual tackle key, bounds check
updateTail(g, in) ==
    LET g1 == IF "KeyT" \in in.keys
              THEN [g EXCEPT !.player = playAction(@, "tackle")] ELSE g
    IN  IF in.oob /\ g1.rules.playState = "PLAY_ACTIVE"
        THEN IF g1.rules.possession = "home" THEN CallEndPlay(g1, in.playerX)
             ELSE CallEndPlay(g1, in.defenderX)
        ELSE g1

\* update, lines 296-371: kick, throw, carrying the ball
updateBall(g, in) ==
    IF g.rules.playState = "PLAY_ACTIVE" /\ g.rules.possession = "home"
    THEN LET g1 == IF "KeyK" \in in.keys /\ in.ballDist # "far"
                   THEN [g EXCEPT !.player = playAction(@, "kick"),
                                  !.gp.isCarryingBall = FALSE]
                   ELSE g
             g2 == IF "Space" \in in.keys /\ g1.gp.isCarryingBall
                   THEN [g1 EXCEPT !.player = playAction(@, "throw"),
                                   !.gp.isCarryingBall = FALSE]
                   ELSE g1
         IN  IF ~g2.gp.isCarryingBall /\ in.ballDist = "held"
             THEN [g2 EXCEPT !.gp.isCarryingBall = TRUE] ELSE g2
    ELSE g

\* update, lines 249-294: the defenders chase; a tackle ends the play
updateTackle(g, in) ==
    IF g.rules.playState = "PLAY_ACTIVE"
    THEN IF g.rules.possession = "home"
         THEN IF in.dist = "touch" \/ in.otherNear
              THEN CallEndPlay(g, in.playerX)
              ELSE updateTail(updateBall(g, in), in)
         ELSE IF in.dist = "touch"
              THEN CallEndPlay(g, in.defenderX)
              ELSE updateTail(updateBall(g, in), in)
    ELSE updateTail(updateBall(g, in), in)

\* update, lines 213-220, then on to the movement and tackle part
updateWhistle(g, in) ==
    IF g.rules.playState = "WHISTLE"
    THEN SetRules([g EXCEPT !.gp.currentPlaySelected = FALSE,
                            !.gp.isCarryingBall = FALSE],
                  [g.rules EXCEPT !.playState = "PRE_SNAP"], "whistle")
    ELSE updateTackle(g, in)

\* update, lines 176-211
updatePreSnap(g, in) ==
    IF g.rules.playState = "PRE_SNAP"
    THEN IF ~g.gp.currentPlaySelected THEN g
         ELSE IF in.sinceEnd = "short" THEN g
         ELSE IF g.rules.possession = "home"
         THEN IF "Space" \in in.keys
              THEN updateWhistle(SetRules([g EXCEPT !.gp.isCarryingBall = TRUE],
                                          snapBall(g.rules), "snapBall"), in)
              ELSE updateWhistle(g, in)
         ELSE IF in.sinceEnd = "long"
              THEN updateWhistle(SetRules(g, snapBall(g.rules), "snapBall"), in)
              ELSE updateWhistle(g, in)
    ELSE updateWhistle(g, in)

\* GamePhysics.update
gpUpdate(g, in) ==
    IF g.rules.playState = "COIN_FLIP" THEN updateCoinFlip(g, in)
    ELSE IF g.rules.playState = "KICKOFF" THEN updateKickoff(g, in)
    ELSE IF ~in.playing THEN g
    ELSE updatePreSnap(IF "KeyF" \in in.keys
                       THEN [g EXCEPT !.player = playAction(@, "tackle")] ELSE g, in)

\* GamePhysics.updateFormations: a pass to a teammate, the user's tackle
updateFormations(g, in) ==
    LET g1 == IF /\ g.rules.playState = "PLAY_ACTIVE" /\ g.rules.possession = "home"
                 /\ g.gp.isCarryingBall /\ in.passKey
              THEN [g EXCEPT !.player = playAction(@, "throw"),
                             !.gp.isCarryingBall = FALSE]
              ELSE g
    IN  IF /\ g1.player.isActing /\ g1.player.currentAction = "tackle"
           /\ in.dist # "far" /\ g1.rules.possession = "away"
        THEN CallEndPlay(g1, in.defenderX)
        ELSE g1

\* one pass of the main loop
frame(g, in) == updateFormations(gpUpdate(g, in), in)

\* inputs tried
LoopXs == {-50, 0, 50}

\* distances are classes: the main defender is "touch" (under 0.8), "reach"
\* (under 1.0) or "far" from the user's player; the ball is "held" (under
\* 0.8), "reach" (under 1.0) or "far"

\* frames are tried up to this total score
MaxLoopScore == 6

\* kick power reached while the key is held
Charges == {0, 1000}

\* time since the last play ended: under 1 s, 1 to 2 s, over 2 s
SinceEnds == {"short", "mid", "long"}

QuietInput ==
    [keys |-> {}, coin |-> "heads", rnd |-> FALSE, charge |-> 0, playing |-> TRUE,
     sinceEnd |-> "long", dist |-> "far", otherNear |-> FALSE,
     oob |-> FALSE, playerX |-> 0, defenderX |-> 0, ballDist |-> "far",
     passKey |-> FALSE]

\* where the players are during a play: nobody near, or at a spot of LoopXs
\* the main defender within reach or touching, another defender touching,
\* the ball carrier over the sideline
Contacts ==
    {QuietInput}
      \union {[QuietInput EXCEPT !.dist = d, !.oob = ob, !.playerX = x, !.defenderX = x] :
                d \in {"reach", "touch"}, ob \in BOOLEAN, x \in LoopXs}
      \union {[QuietInput EXCEPT !.otherNear = o, !.oob = ~o, !.playerX = x,
                                 !.defenderX = x] : o \in BOOLEAN, x \in LoopXs}

\* the keys held during a play with the ball's distance; KeyQ stands for a
\* teammate's assigned key
PlayKeys ==
    {<<{}, "far">>, <<{}, "held">>, <<{"Space"}, "far">>, <<{"Space"}, "held">>,
     <<{"KeyF"}, "far">>, <<{"KeyK"}, "reach">>, <<{"KeyK"}, "held">>, <<{"KeyQ"}, "far">>}

\* what a frame can meet in each phase; the fields a phase does not read stay quiet
FrameInputs(r, pl) ==
    LET tackling == pl.isActing /\ pl.currentAction = "tackle"
        Touching == IF tackling /\ r.possession = "away"
                    THEN {[QuietInput EXCEPT !.dist = d, !.defenderX = x] :
                            d \in {"reach", "far"}, x \in LoopXs}
                    ELSE {QuietInput}
    IN  CASE r.playState = "COIN_FLIP" ->
               {[q EXCEPT !.keys = k, !.coin = c] :
                  q \in Touching, k \in {{}, {"KeyH"}, {"KeyT"}}, c \in CoinSides}
          [] r.playState = "KICKOFF" ->
               {[q EXCEPT !.keys = k, !.charge = c, !.rnd = rnd] :
                  q \in Touching, k \in {{}, {"Space"}}, c \in Charges, rnd \in BOOLEAN}
          [] r.playState = "PRE_SNAP" ->
               {[QuietInput EXCEPT !.playing = FALSE]}
                 \union {[QuietInput EXCEPT !.keys = k, !.sinceEnd = s] :
                           k \in {{}, {"Space"}, {"KeyF"}, {"KeyF", "Space"}},
                           s \in SinceEnds}
                 \union {[q EXCEPT !.keys = k] :
                           q \in Contacts, k \in {{"Space"}, {"KeyF", "Space"}}}
          [] r.playState = "WHISTLE" ->
               {[q EXCEPT !.playing = p] : q \in Touching, p \in BOOLEAN}
          [] r.playState = "PLAY_ACTIVE" ->
               {[QuietInput EXCEPT !.playing = FALSE]}
                 \union {[q EXCEPT !.keys = k[1], !.ballDist = k[2],
                                   !.passKey = (k[1] = {"KeyQ"})] :
                           q \in Contacts, k \in PlayKeys}

\* the play that is active, or was when the step ended it, began with a
\* kickoff kick: kicked in this step, or still the play that was a return
IsReturn(trail, was) ==
    IF \E i \in 1 .. Len(trail) : trail[i].to = "PLAY_ACTIVE"
    THEN \E i \in 1 .. Len(trail) : trail[i].by = "kickoffKick"
    ELSE was

\* one pass of the main loop: update(), then updateFormations()
Frame(in) ==
    \E g \in {frame(Bundle(footballRules, gamePhysics, player), in)} :
        /\ g.rules.scoreHome + g.rules.scoreAway <= MaxLoopScore
        /\ footballRules' = g.rules
        /\ gamePhysics' = g.gp
        /\ player' = g.player
        /\ frameTrail' = g.trail
        /\ frameEnds' = g.ends
        /\ returning' = (g.rules.playState = "PLAY_ACTIVE" /\ IsReturn(g.trail, returning))
        /\ fbLast' = FbOp("frame", 0, "none", "none")
        /\ shortRun' = NoRun
        /\ UNCHANGED nonLoopVars

\* the 'play:selected' event of the play picker
PlaySelected ==
    /\ ~gamePhysics.currentPlaySelected
    /\ gamePhysics' = [gamePhysics EXCEPT !.currentPlaySelected = TRUE]
    /\ frameTrail' = << >> /\ frameEnds' = << >>
    /\ UNCHANGED <<footballRules, fbLast, shortRun, player, returning>>
    /\ UNCHANGED nonLoopVars

\* the timer of playAction ends the player's action
ActionEnds ==
    /\ player.isActing
    /\ player' = PlayerInit
    /\ frameTrail' = << >> /\ frameEnds' = << >>
    /\ UNCHANGED <<footballRules, fbLast, shortRun, gamePhysics, returning>>
    /\ UNCHANGED nonLoopVars

\* the timer set at the kickoff kick hides the kick meter
KickMeterHides ==
    /\ gamePhysics.meterTimer
    /\ gamePhysics' = [gamePhysics EXCEPT !.meterTimer = FALSE, !.kickMeterActive = FALSE]
    /\ frameTrail' = << >> /\ frameEnds' = << >>
    /\ UNCHANGED <<footballRules, fbLast, shortRun, player, returning>>
    /\ UNCHANGED nonLoopVars

NextLoop ==
    \/ \E in \in FrameInputs(footballRules, player) : Frame(in)
    \/ PlaySelected
    \/ ActionEnds
    \/ KickMeterHides

(***************************************************************************)
(* Pitch loop: SoccerPhysics.update                                        *)
(*                                                                         *)
(* A tick works on a bundle g of the objects it touches: the rules with    *)
(* their pending kickoff timers, the ball, the SoccerPhysics fields and    *)
(* the record of what the tick did.  Lengths are thousandths of a unit, as *)
(* for the ball; restartPosition holds ball coordinates.  The match clock  *)
(* counts whole seconds: a tick, which lasts at most 32 ms, moves it on by *)
(* 0 or by 1.  The keys held, where the controlled player stands and how   *)
(* long a shot was charged are inputs of the tick; the controlled player   *)
(* stands still and has full stamina.  Ticks run while the GameManager is  *)
(* in its PLAYING state.  Player movement, collisions, the player switch   *)
(* and the AI calls at the end of the tick write nothing the rules or the  *)
(* ball read and are left out.                                             *)
(***************************************************************************)

\* spawnTeams: the positions of the eleven players of a team, in the order
\* of homePlayers and awayPlayers (index 0 comes first)
SpawnPositions ==
    <<"GK", "LB", "CB", "CB", "RB", "LM", "CM", "RM", "LW", "ST", "RW">>

PlayerIndexes == 0 .. (Len(SpawnPositions) - 1)

\* spawnTeams: the home players that get a SoccerAI, all but the striker
homeAI == {i \in PlayerIndexes : SpawnPositions[i + 1] # "ST"}

\* spawnTeams: every away player gets a SoccerAI
awayAI == PlayerIndexes

\* spawnTeams: the first striker of homePlayers is the controlled player
SpawnControlled ==
    CHOOSE i \in PlayerIndexes :
        /\ SpawnPositions[i + 1] = "ST"
        /\ \A j \in PlayerIndexes : SpawnPositions[j + 1] = "ST" => i <= j

\* the players whose velocity a SoccerAI writes at the end of update()
Steered == {<<"home", i>> : i \in homeAI} \union {<<"away", i>> : i \in awayAI}

\* the fields of SoccerPhysics with the isControlled and hasBall flags of the
\* home players (the sets of the players whose flag is true)
SoccerPhysicsInit ==
    [isDribbling |-> FALSE, isChargingKick |-> FALSE,
     controlledPlayer |-> SpawnControlled, isControlled |-> {SpawnControlled},
     hasBall |-> {}, switchCooldown |-> 0]

TickLogInit ==
    [pre |-> "KICKOFF", restarted |-> FALSE, rulings |-> << >>, kicks |-> 0,
     scorer |-> "none", switches |-> 0, steered |-> {}]

\* the striker's base stats, the player controlled from the start
shooting == 85

passing == 60

dribbling == 75

\* SoccerField: half of width 120, half of height 80, half of goalWidth 8
fieldHalfWidth == 60

fieldHalfHeight == 40

goalHalfWidth == 4

\* SoccerField.isOutOfBounds on ball coordinates: the side left, or "none"
isOutOfBounds(x, y) ==
    IF y > fieldHalfHeight * Unit THEN "top"
    ELSE IF y < -fieldHalfHeight * Unit THEN "bottom"
    ELSE IF x < -fieldHalfWidth * Unit THEN "left"
    ELSE IF x > fieldHalfWidth * Unit THEN "right"
    ELSE "none"

\* SoccerField.isGoal on ball coordinates
fieldIsGoal(x, y) ==
    IF Abs(y) < goalHalfWidth * Unit
    THEN IF x <= -fieldHalfWidth * Unit THEN "away"
         ELSE IF x >= fieldHalfWidth * Unit THEN "home" ELSE "none"
    ELSE "none"

\* SoccerPlayer.getKickPower at full stamina (staminaMod = 1)
getKickPower(charge) == TMul(Unit + TMul(2 * Unit, shooting, 99), charge, Unit)

getPassAccuracy == TMul(Unit, passing, 99)

getDribbleControl == TMul(Unit, 3, 10) + TMul(TMul(Unit, dribbling, 99), 4, 10)

\* the result of getKickDirection for the direction keys held (dx, dy)
getKickDirection(dx, dy) ==
    IF dx = 0 /\ dy = 0 THEN Vec(Unit, 0, 0)
    ELSE normalize(Vec(dx * Unit, dy * Unit, 0))

\* the record of a tick starts empty; it keeps the counts of kicks and of
\* player switches so far and the team that scored last
PitchBundle(r, t, b, sp, prev) ==
    [rules |-> r, timers |-> t, ball |-> b, phys |-> sp,
     log |-> [pre |-> r.playState, restarted |-> FALSE, rulings |-> << >>,
              kicks |-> prev.kicks, scorer |-> prev.scorer,
              switches |-> prev.switches, steered |-> {}]]

handleKickoff(g, in) ==
    LET g1 == [g EXCEPT !.ball = reset(@, 0, 0)]
    IN  IF in.key = "Space"
        THEN [g1 EXCEPT !.rules = startPlay(@),
                        !.ball = kick(g1.ball, Vec(Unit, 0, 0), TMul(Unit, 5, 10), 0,
                                      "home", 0)]
        ELSE g1

\* handleDribbling with the controlled player standing at in.playerPos
handleDribbling(g, in) ==
    LET b == g.ball
        p == in.playerPos
        dist2DSq == (p.x - b.position.x) * (p.x - b.position.x)
                      + (p.y - b.position.y) * (p.y - b.position.y)
        controlDist == (getDribbleControl + TMul(Unit, 15, 10)) * 3
        ballIsMovingFast == LenSq(b.velocity) > TMul(Unit, 3, 10) * TMul(Unit, 3, 10)
        ballInAir == b.height > TMul(Unit, 5, 10)
        facing == IF b.position.x - p.x > 0 THEN 1 ELSE -1
        targetX == p.x + facing * Unit
        targetY == p.y
    IN  IF dist2DSq < controlDist * controlDist /\ ~ballIsMovingFast /\ ~ballInAir
        THEN [g EXCEPT
                !.phys.isDribbling = TRUE,
                !.phys.hasBall = IF g.phys.isDribbling THEN @
                                 ELSE @ \union {g.phys.controlledPlayer},
                !.ball.lastTouchedBy = IF g.phys.isDribbling THEN @ ELSE "home",
                !.ball.position.x = @ + TMul(targetX - @, 25, 100),
                !.ball.position.y = @ + TMul(targetY - @, 25, 100),
                !.ball.velocity = Vec(TMul(TMul(@.x, 7, 10), 9, 10),
                                      TMul(TMul(@.y, 7, 10), 9, 10),
                                      TMul(TMul(@.z, 7, 10), 9, 10))]
        ELSE IF g.phys.isDribbling
                  /\ (4 * dist2DSq > 9 * controlDist * controlDist \/ ballIsMovingFast)
        THEN [g EXCEPT !.phys.isDribbling = FALSE,
                       !.phys.hasBall = @ \ {g.phys.controlledPlayer}]
        ELSE g

\* handleKicking: the shot on Space, then the through ball, the lob, the soft pass
handleKicking(g, in) ==
    LET kickDir == getKickDirection(in.dx, in.dy)
        lift == TMul(in.charge, 4, 10) + TMul(Unit, 1, 10)
        shot(b) == IF ballDef = "first"
                   THEN shoot(b, kickDir, getKickPower(in.charge), 0, "home", lift)
                   ELSE shootSecond(b, kickDir, getKickPower(in.charge), 0, "home", lift)
        g1 == IF in.key = "Space"
              THEN [g EXCEPT !.phys.isChargingKick = TRUE]
              ELSE IF g.phys.isChargingKick
              THEN [g EXCEPT !.ball = shot(@), !.phys.isChargingKick = FALSE,
                             !.phys.isDribbling = FALSE,
                             !.phys.hasBall = @ \ {g.phys.controlledPlayer}]
              ELSE g
        leadDir == normalize(Vec(kickDir.x + TMul(Unit, 5, 10), kickDir.y, kickDir.z))
        g2 == IF in.key = "KeyE" /\ ~g1.phys.isChargingKick
              THEN [g1 EXCEPT !.ball = kick(@, leadDir,
                                            TMul(Unit, 4, 10) + TMul(getPassAccuracy, 3, 10),
                                            0, "home", TMul(Unit, 35, 100)),
                              !.phys.isDribbling = FALSE,
                              !.phys.hasBall = @ \ {g.phys.controlledPlayer}]
              ELSE g1
        g3 == IF in.key = "KeyR" /\ ~g2.phys.isChargingKick
              THEN [g2 EXCEPT !.ball = kick(@, kickDir,
                                            TMul(Unit, 4, 10) + TMul(getPassAccuracy, 2, 10),
                                            0, "home", TMul(Unit, 7, 10)),
                              !.phys.isDribbling = FALSE,
                              !.phys.hasBall = @ \ {g.phys.controlledPlayer}]
              ELSE g2
        g4 == IF in.key = "KeyF" /\ ~g3.phys.isChargingKick
              THEN [g3 EXCEPT !.ball = kick(@, kickDir,
                                            TMul(Unit, 2, 10) + TMul(getPassAccuracy, 2, 10),
                                            0, "home", 0),
                              !.phys.isDribbling = FALSE,
                              !.phys.hasBall = @ \ {g.phys.controlledPlayer}]
              ELSE g3
    IN  IF ~g.phys.isDribbling THEN g
        ELSE [g4 EXCEPT !.log.kicks = IF g4.phys.isDribbling THEN @ ELSE @ + 1]

\* doSwitch: the isControlled flag moves to newPlayer
doSwitch(g, newPlayer) ==
    [g EXCEPT !.phys.isControlled = (@ \ {g.phys.controlledPlayer}) \union {newPlayer},
              !.phys.controlledPlayer = newPlayer,
              !.log.switches = @ + 1]

\* switchToNearestToBall; in.nearest is the other home player nearest to the ball
switchToNearestToBall(g, in) ==
    IF in.nearest \in PlayerIndexes \ {g.phys.controlledPlayer}
    THEN doSwitch(g, in.nearest) ELSE g

cyclePlayer(g, dir) ==
    LET n == Len(SpawnPositions)
    IN  doSwitch(g, (g.phys.controlledPlayer + dir + n) % n)

\* handlePlayerSwitch: KeyQ picks the nearest player, KeyE the next one
handlePlayerSwitch(g, in) ==
    IF g.phys.switchCooldown > 0 THEN g
    ELSE LET g1 == IF in.key = "KeyQ"
                   THEN [switchToNearestToBall(g, in) EXCEPT !.phys.switchCooldown = 300]
                   ELSE g
         IN  IF in.key = "KeyE"
             THEN [cyclePlayer(g1, 1) EXCEPT !.phys.switchCooldown = 300]
             ELSE g1

\* handlePlaying; the movement of the controlled player is an input
handlePlaying(g, in) ==
    LET g1 == IF g.phys.switchCooldown > 0
              THEN [g EXCEPT !.phys.switchCooldown = @ - FrameDt] ELSE g
    IN  handlePlayerSwitch(handleKicking(handleDribbling(g1, in), in), in)

handleRestart(g, in) ==
    LET g1 == [g EXCEPT !.ball = reset(@, g.rules.restartPosition.x,
                                       g.rules.restartPosition.y)]
    IN  IF in.key = "Space"
        THEN [g1 EXCEPT !.rules = startPlay(@), !.log.restarted = TRUE]
        ELSE g1

handleHalftime(g, in) ==
    IF in.key = "Space" THEN [g EXCEPT !.rules = startSecondHalf(@)] ELSE g

\* slip: the boundaries are checked in every phase
checkBoundaries_anyPhase(g) ==
    LET pos == g.ball.position
        goal == fieldIsGoal(pos.x, pos.y)
        side == isOutOfBounds(pos.x, pos.y)
        toucher == IF g.ball.lastTouchedBy = "none" THEN "home"
                   ELSE g.ball.lastTouchedBy
    IN  IF goal # "none"
        THEN [g EXCEPT !.rules = scoreGoal(@, goal),
                       !.timers = Append(@, Other(goal)),
                       !.log.rulings = Append(@, "goal"), !.log.scorer = goal]
        ELSE IF side # "none"
        THEN [g EXCEPT !.rules = ballOutOfBounds(@, toucher, side,
                                                 [x |-> pos.x, y |-> pos.y]),
                       !.log.rulings = Append(@, side)]
        ELSE g

\* checkBoundaries: a goal is ruled before the ball is looked for outside
checkBoundaries(g) ==
    LET pos == g.ball.position
        goal == fieldIsGoal(pos.x, pos.y)
        side == isOutOfBounds(pos.x, pos.y)
        toucher == IF g.ball.lastTouchedBy = "none" THEN "home"
                   ELSE g.ball.lastTouchedBy
    IN  IF g.rules.playState # "PLAYING" THEN g
        ELSE IF goal # "none"
        THEN [g EXCEPT !.rules = scoreGoal(@, goal),
                       !.timers = Append(@, Other(goal)),
                       !.log.rulings = Append(@, "goal"), !.log.scorer = goal]
        ELSE IF side # "none"
        THEN [g EXCEPT !.rules = ballOutOfBounds(@, toucher, side,
                                                 [x |-> pos.x, y |-> pos.y]),
                       !.log.rulings = Append(@, side)]
        ELSE g

\* update(): the clock, the handler of the phase, the ball, the boundaries
tick(g, in) ==
    LET g1 == [g EXCEPT !.rules = updateTime(@, in.d)]
        st == g1.rules.playState
        g2 == IF st = "KICKOFF" THEN handleKickoff(g1, in)
              ELSE IF st = "PLAYING" THEN handlePlaying(g1, in)
              ELSE IF st \in {"OUT_OF_BOUNDS", "CORNER_KICK", "GOAL_KICK", "FREE_KICK"}
              THEN handleRestart(g1, in)
              ELSE IF st = "HALFTIME" THEN handleHalftime(g1, in)
              ELSE g1
        g3 == [g2 EXCEPT !.ball = update(@, FrameDt, in.rnd)]
    IN  [checkBoundaries(g3) EXCEPT !.log.steered = Steered]

\* the match clock is followed up to this many seconds
MaxPitchClock == 1

\* where the controlled player stands, seen from the ball: one unit behind
\* it, where a dribble leaves the ball in place, or out of reach
PlayerOffsets == {Vec(-Unit, 0, 0), Vec(-20 * Unit, 0, 0)}

\* the shots tried: the direction keys held (dx, dy) and how long the shot
\* key was held, in thousandths of a second
Shots == {<<0, 0, 1000>>, <<-1, 0, 1000>>, <<0, 0, 200>>, <<-1, 0, 200>>,
          <<1, 1, 1000>>, <<-1, -1, 1000>>}

QuietTick ==
    [key |-> "none", dx |-> 0, dy |-> 0, charge |-> 0, d |-> 0, rnd |-> 0,
     playerPos |-> Vec(-20 * Unit, 0, 0), nearest |-> 0]

\* the player is followed through this many kicks of a match, or up to the
\* first switch of control and the kick after it
MaxKicks == 2

\* the home players tried as the one nearest to the ball: the goalkeeper and
\* the central midfielder
Nearests == {0, 6}

\* what a tick can meet in each phase; the fields a phase does not read stay
\* quiet.  The player comes up to a ball that lies still, and the switch keys
\* are pressed while the player has the ball for the first time (KeyE, which
\* is the through ball as well, at any time the player has the ball).
TickInputs(r, b, sp, kicks, switches) ==
    LET Clocked == {[QuietTick EXCEPT !.d = d] :
                      d \in {e \in {0, 1} : r.matchTime + e <= MaxPitchClock}}
        Near == IF (b.velocity = ZeroVec /\ kicks < MaxKicks /\ switches = 0)
                     \/ sp.isDribbling
                THEN PlayerOffsets
                ELSE {Vec(-20 * Unit, 0, 0)}
        Standing == {[q EXCEPT !.playerPos = Vec(b.position.x + o.x, b.position.y + o.y, 0)] :
                       q \in Clocked, o \in Near}
        Switching == IF sp.isDribbling /\ kicks = 0 /\ switches = 0
                     THEN {[q EXCEPT !.key = "KeyQ", !.nearest = n] :
                             q \in Standing, n \in Nearests \ {sp.controlledPlayer}}
                            \union {[q EXCEPT !.key = "KeyE"] : q \in Standing}
                     ELSE {}
    IN  CASE r.playState = "PLAYING" ->
               IF sp.isDribbling
               THEN {[q EXCEPT !.key = k] : q \in Standing, k \in {"none", "Space"}}
                      \union {[q EXCEPT !.dx = sh[1], !.dy = sh[2], !.charge = sh[3]] :
                                q \in Standing, sh \in Shots}
                      \union {[q EXCEPT !.key = k] :
                                q \in Standing, k \in {"KeyE", "KeyR", "KeyF"}}
                      \union Switching
               ELSE Standing
          [] r.playState \in {"KICKOFF", "OUT_OF_BOUNDS", "CORNER_KICK", "GOAL_KICK",
                              "FREE_KICK", "HALFTIME"} ->
               {[QuietTick EXCEPT !.key = k] : k \in {"none", "Space"}}
          [] OTHER -> {QuietTick}

\* one pass of SoccerPhysics.update
Tick(in) ==
    \E g \in {tick(PitchBundle(soccerRules, timers, ball, soccerPhysics, tickLog), in)} :
        /\ soccerRules.score.home + soccerRules.score.away <= MaxGoals
        /\ soccerRules' = g.rules
        /\ timers' = g.timers
        /\ ball' = g.ball
        /\ soccerPhysics' = g.phys
        /\ tickLog' = g.log
        /\ scLast' = ScOp("tick", "none", "none", CentreSpot, FALSE, in.d)
        /\ ballLast' = BlOp("tick", ZeroVec, 0, 0, 0)
        /\ rollTicks' = 0
        /\ UNCHANGED ballDef
        /\ UNCHANGED nonPitchVars

NextPitch ==
    \/ \E in \in TickInputs(soccerRules, ball, soccerPhysics, tickLog.kicks,
                            tickLog.switches) : Tick(in)
    \/ TimerFires

(***************************************************************************)
(* Gridiron receivers: FootballAI, RouteRunner, Player.move                *)
(*                                                                         *)
(* Positions, speeds and directions are fixed-point, Unit to 1.0.  The     *)
(* FootballRules object keeps its integer yards.                           *)
(***************************************************************************)

RouteType == {"fly", "slant", "post", "curl", "block"}

\* the formation spots that carry an AI: the running back of the I formation
\* and a lineman standing left of the centre
ReceiverSpots == {[x |-> -7, y |-> 0], [x |-> 0, y |-> 4]}

\* Player: baseSpeed 0.15, x 0.8 for a large player
PlayerSpeeds == {150, 120}

\* new FootballAI(player, RouteType.FLY)
FootballAIInit == [route |-> "fly", startPosition |-> ZeroVec, hasStartedRoute |-> FALSE]

setRoute(ai, route) == [ai EXCEPT !.route = route, !.hasStartedRoute = FALSE]

\* setupOffensePositions: p.setPosition(los + spot.x, spot.y); the AI object is kept
setupOffensePositions(rules, p) ==
    [p EXCEPT !.position = Vec((rules.lineOfScrimmage + p.spot.x) * Unit,
                               p.spot.y * Unit, 0)]

\* slip: the curl has no turn frame, it comes back as soon as it has run 8
getRouteDirection_noTurnFrame(route, p, startPosition) ==
    LET distanceRun == p.position.x - startPosition.x
    IN  CASE route = "fly"   -> Vec(Unit, 0, 0)
          [] route = "slant" -> IF distanceRun < 5 * Unit THEN Vec(Unit, 0, 0)
                                ELSE IF startPosition.y > 0 THEN Vec(Unit, -Unit, 0)
                                ELSE Vec(Unit, Unit, 0)
          [] route = "post"  -> IF distanceRun < 10 * Unit THEN Vec(Unit, 0, 0)
                                ELSE IF startPosition.y > 0 THEN Vec(Unit, -500, 0)
                                ELSE Vec(Unit, 500, 0)
          [] route = "curl"  -> IF distanceRun < 8 * Unit THEN Vec(Unit, 0, 0)
                                ELSE Vec(-100, 0, 0)
          [] route = "block" -> ZeroVec

getRouteDirection(route, p, startPosition) ==
    LET distanceRun == p.position.x - startPosition.x
    IN  CASE route = "fly"   -> Vec(Unit, 0, 0)
          [] route = "slant" -> IF distanceRun < 5 * Unit THEN Vec(Unit, 0, 0)
                                ELSE IF startPosition.y > 0 THEN Vec(Unit, -Unit, 0)
                                ELSE Vec(Unit, Unit, 0)
          [] route = "post"  -> IF distanceRun < 10 * Unit THEN Vec(Unit, 0, 0)
                                ELSE IF startPosition.y > 0 THEN Vec(Unit, -500, 0)
                                ELSE Vec(Unit, 500, 0)
          [] route = "curl"  -> IF distanceRun < 8 * Unit THEN Vec(Unit, 0, 0)
                                ELSE IF distanceRun < 8500 THEN ZeroVec
                                ELSE Vec(-100, 0, 0)
          [] route = "block" -> ZeroVec

\* Player.move for a player that is not locked in an action
move(p, dx, dy) ==
    IF dx # 0 \/ dy # 0
    THEN [p EXCEPT !.position = Vec(p.position.x + TMul(dx, p.speed, Unit),
                                    p.position.y + TMul(dy, p.speed, Unit), 0),
                   !.velocity = Vec(dx, dy, 0)]
    ELSE [p EXCEPT !.velocity = ZeroVec]

runRoute(ai, p) ==
    LET moveDir == getRouteDirection(ai.route, p, ai.startPosition)
    IN  IF LenSq(moveDir) > 0
        THEN LET n == normalize(moveDir) IN move(p, n.x, n.y)
        ELSE p

\* FootballAI.update(rules): the pair of the AI and its player afterwards
footballAIUpdate(ai, p, rules) ==
    IF rules.playState # "PLAY_ACTIVE"
    THEN IF ~ai.hasStartedRoute /\ rules.playState = "PRE_SNAP"
         THEN [ai |-> [ai EXCEPT !.startPosition = p.position], player |-> p]
         ELSE [ai |-> ai, player |-> p]
    ELSE LET ai1 == IF ~ai.hasStartedRoute
                    THEN [ai EXCEPT !.startPosition = p.position,
                                    !.hasStartedRoute = TRUE]
                    ELSE ai
         IN  [ai |-> ai1, player |-> runRoute(ai1, p)]

\* the drive the receiver plays in: home won the toss and brought the
\* kickoff back to its own 10, and the loop turned the whistle into PRE_SNAP
RouteRulesInit ==
    [startNewDrive(performCoinFlip(FootballRulesInit, "heads", "heads"), -40)
       EXCEPT !.playState = "PRE_SNAP"]

ReceiverInit(spot, speed) ==
    setupOffensePositions(RouteRulesInit,
        [position |-> ZeroVec, velocity |-> ZeroVec, speed |-> speed, spot |-> spot])

RouteLogInit == [activeStart |-> ZeroVec, plays |-> 0, idle |-> 0, op |-> "constructor"]

\* snaps followed
MaxPlays == 2

\* consecutive updates followed that leave the receiver where it is
MaxIdle == 2

\* how far past its place at the snap a receiver is followed, in units
RouteReach == 11

\* where the plays of the drive end: short of the marker, past the marker
RouteEndXs == {-36, -28}

\* a route is picked before the snap
RouteSetRoute(route) ==
    /\ routeRules.playState = "PRE_SNAP"
    /\ footballAI' = setRoute(footballAI, route)
    /\ routeLog' = [routeLog EXCEPT !.op = "setRoute"]
    /\ UNCHANGED <<routeRules, receiver, nonRouteVars>>

\* GamePhysics.update, PRE_SNAP branch: the snap
RouteSnap ==
    /\ routeRules.playState = "PRE_SNAP"
    /\ routeLog.plays < MaxPlays
    /\ routeRules' = snapBall(routeRules)
    /\ routeLog' = [activeStart |-> receiver.position, plays |-> routeLog.plays + 1,
                    idle |-> 0, op |-> "snapBall"]
    /\ UNCHANGED <<footballAI, receiver, nonRouteVars>>

\* GamePhysics.updateFormations: p.ai.update(rules) while the play is active
RouteUpdate ==
    /\ routeRules.playState = "PLAY_ACTIVE"
    /\ receiver.position.x - routeLog.activeStart.x < RouteReach * Unit
    /\ routeLog.idle < MaxIdle
    /\ \E g \in {footballAIUpdate(footballAI, receiver, routeRules)} :
          /\ footballAI' = g.ai
          /\ receiver' = g.player
          /\ routeLog' = [routeLog EXCEPT !.op = "update",
                             !.idle = IF g.player.position = receiver.position
                                      THEN @ + 1 ELSE 0]
    /\ UNCHANGED <<routeRules, nonRouteVars>>

\* the play ends at endX
RouteEndPlay(endX) ==
    /\ routeRules.playState = "PLAY_ACTIVE"
    /\ routeRules' = endPlay(routeRules, endX)
    /\ routeLog' = [routeLog EXCEPT !.op = "endPlay"]
    /\ UNCHANGED <<footballAI, receiver, nonRouteVars>>

\* GamePhysics.update, WHISTLE branch: PRE_SNAP again, everybody back on its spot
RouteWhistle ==
    /\ routeRules.playState = "WHISTLE"
    /\ \E r \in {[routeRules EXCEPT !.playState = "PRE_SNAP"]} :
          /\ routeRules' = r
          /\ receiver' = [setupOffensePositions(r, receiver) EXCEPT !.velocity = receiver.velocity]
    /\ routeLog' = [routeLog EXCEPT !.op = "resetPositions"]
    /\ UNCHANGED <<footballAI, nonRouteVars>>

NextRoute ==
    \/ \E route \in RouteType : RouteSetRoute(route)
    \/ RouteSnap
    \/ RouteUpdate
    \/ \E endX \in RouteEndXs : RouteEndPlay(endX)
    \/ RouteWhistle

(***************************************************************************)
(* Specifications                                                          *)
(***************************************************************************)

\* every object as its constructor leaves it
InitObjects ==
    /\ footballRules = resetGame(FootballRulesInit)
    /\ fbLast = [op |-> "constructor", x |-> 0, call |-> "none", result |-> "none",
                 pre |-> "COIN_FLIP"]
    /\ shortRun = NoRun
    /\ soccerRules = resetMatch(SoccerRulesInit)
    /\ timers = << >>
    /\ scLast = [op |-> "constructor", team |-> "none", side |-> "none",
                 pos |-> CentreSpot, flag |-> FALSE, d |-> 0, pre |-> "KICKOFF"]
    /\ ball = SoccerBallInit
    /\ ballLast = BlOp("constructor", ZeroVec, 0, 0, 0)
    /\ rollTicks = 0
    /\ tackle = [tackler |-> TackleEntity(ZeroVec, ZeroVec, 0),
                 ballCarrier |-> TackleEntity(ZeroVec, ZeroVec, 0), roll |-> 0,
                 out |-> [result |-> TackleResult(FALSE, "none", ZeroVec, 0),
                          tacklePower |-> -1, breakChance |-> -1, rolled |-> FALSE]]
    /\ gamePhysics = GamePhysicsInit
    /\ player = PlayerInit
    /\ frameTrail = << >>
    /\ frameEnds = << >>
    /\ returning = FALSE
    /\ soccerPhysics = SoccerPhysicsInit
    /\ tickLog = TickLogInit
    /\ aiLast = [nearestOpponent |-> null, decided |-> FALSE]
    /\ routeRules = RouteRulesInit
    /\ footballAI = FootballAIInit
    /\ routeLog = RouteLogInit

\* the AI of the home goalkeeper, standing on its formation position
HomeKeeperAI == SoccerAIInit("GK", "home", Vec(-550, 0, 0), Vec(60, 0, 0))

\* the receiver every other subsystem leaves alone
RunningBack == ReceiverInit([x |-> -7, y |-> 0], 150)

Init == InitObjects /\ ballDef = "first" /\ soccerAI = HomeKeeperAI /\ receiver = RunningBack

\* the ball is an object of either SoccerBall class
InitBall ==
    /\ InitObjects /\ ballDef \in {"first", "second"} /\ soccerAI = HomeKeeperAI
    /\ receiver = RunningBack

\* the AI is built for a player of any role and team
InitAI ==
    /\ InitObjects /\ ballDef = "first" /\ receiver = RunningBack
    /\ \E pl \in AIPlayers, pp \in PlayerSpots, off \in SupportOffsets :
          soccerAI = SoccerAIInit(pl[1], pl[2], pp, off)

\* the receiver stands on either spot and is of either size
InitRoute ==
    /\ InitObjects /\ ballDef = "first" /\ soccerAI = HomeKeeperAI
    /\ \E spot \in ReceiverSpots, speed \in PlayerSpeeds : receiver = ReceiverInit(spot, speed)

NextFootball ==
    \/ \E call \in CoinSides, result \in CoinSides : PerformCoinFlip(call, result)
    \/ SetupKickoff
    \/ \E startX \in EndXs : StartNewDrive(startX)
    \/ SnapBall
    \/ \E endX \in EndXs : EndPlay(endX)
    \/ ResetGame
    \/ KickoffKick
    \/ WhistleToPreSnap

NextSoccer ==
    \/ ResetMatch
    \/ \E t \in Teams : StartKickoff(t)
    \/ StartPlay
    \/ \E t \in Teams : ScoreGoal(t)
    \/ TimerFires
    \/ \E t \in Teams, side \in ExitSides, pos \in Positions : BallOutOfBounds(t, side, pos)
    \/ \E t \in Teams, pos \in Positions, box \in BOOLEAN : CallFoul(t, pos, box)
    \/ \E d \in Deltas : UpdateTime(d)
    \/ StartSecondHalf

NextBall ==
    \/ \E rnd \in BounceSpins : BallUpdate(rnd)
    \/ \E dir \in Directions, p \in Powers, sp \in Spins, t \in Teams, l \in Lifts :
          BallKick(dir, p, sp, t, l)
    \/ \E in \in PassInputs, t \in Teams : BallPass(in[1], in[2], t)
    \/ \E dir \in Directions, p \in Powers, sp \in Spins, t \in Teams, l \in Lifts :
          BallShoot(dir, p, sp, t, l)
    \/ BallReset

SpecFootball == Init /\ [][NextFootball]_vars

SpecSoccer == Init /\ [][NextSoccer]_vars

SpecBall == InitBall /\ [][NextBall]_vars

SpecTackle == Init /\ [][NextTackle]_vars

SpecAI == InitAI /\ [][NextAI]_vars

SpecLoop == Init /\ [][NextLoop]_vars

SpecPitch == InitBall /\ [][NextPitch]_vars

SpecRoute == InitRoute /\ [][NextRoute]_vars

(***************************************************************************)
(* Properties of the gridiron rules (checked under SpecFootball)           *)
(***************************************************************************)

\* the step is endPlay(x) called in phase PLAY_ACTIVE
IsPlayEnd == fbLast'.op = "endPlay" /\ footballRules.playState = "PLAY_ACTIVE"

ScoresUnchanged ==
    /\ footballRules'.scoreHome = footballRules.scoreHome
    /\ footballRules'.scoreAway = footballRules.scoreAway

\* C1: endPlay(endX) in PLAY_ACTIVE with endX >= 50 adds exactly 6 to the
\* score of the team in possession and nothing to the other, moves to
\* KICKOFF, makes the scoring team the kicking team, hands possession to the
\* other team, and leaves down, distanceToFirst and firstDownLine alone.
C1_Touchdown ==
    [][ (IsPlayEnd /\ fbLast'.x >= 50) =>
          LET scorer == footballRules.possession
          IN  /\ footballRules'.scoreHome = footballRules.scoreHome
                    + (IF scorer = "home" THEN 6 ELSE 0)
              /\ footballRules'.scoreAway = footballRules.scoreAway
                    + (IF scorer = "away" THEN 6 ELSE 0)
              /\ footballRules'.playState = "KICKOFF"
              /\ footballRules'.kickingTeam = scorer
              /\ footballRules'.possession = Other(scorer)
              /\ footballRules'.down = footballRules.down
              /\ footballRules'.distanceToFirst = footballRules.distanceToFirst
              /\ footballRules'.firstDownLine = footballRules.firstDownLine ]_vars

\* an away touchdown scored on top of points already on the board
C1_Witness ==
    /\ fbLast.op = "endPlay" /\ fbLast.pre = "PLAY_ACTIVE" /\ fbLast.x >= 50
    /\ footballRules.scoreAway = 6 /\ footballRules.scoreHome = 2
    /\ footballRules.kickingTeam = "away" /\ footballRules.possession = "home"
    /\ footballRules.playState = "KICKOFF"

\* C2: endPlay(endX) in PLAY_ACTIVE with firstDownLine <= endX and
\* -50 < endX < 50 gives a first down: down = 1, distanceToFirst = 10,
\* lineOfScrimmage = endX, firstDownLine = min(endX + 10, 50), phase WHISTLE,
\* possession and both scores unchanged.
C2_FirstDown ==
    [][ (IsPlayEnd /\ footballRules.firstDownLine <= fbLast'.x
                   /\ -50 < fbLast'.x /\ fbLast'.x < 50) =>
          /\ footballRules'.down = 1
          /\ footballRules'.distanceToFirst = 10
          /\ footballRules'.lineOfScrimmage = fbLast'.x
          /\ footballRules'.firstDownLine = Min(fbLast'.x + 10, 50)
          /\ footballRules'.playState = "WHISTLE"
          /\ footballRules'.possession = footballRules.possession
          /\ ScoresUnchanged ]_vars

\* a first down gained at 41, where the marker is held at the goal line
C2_Witness ==
    /\ fbLast.op = "endPlay" /\ fbLast.pre = "PLAY_ACTIVE" /\ fbLast.x = 41
    /\ shortRun.n = 0
    /\ footballRules.down = 1 /\ footballRules.lineOfScrimmage = 41
    /\ footballRules.firstDownLine = 50 /\ footballRules.playState = "WHISTLE"

\* C3: endPlay(endX) in PLAY_ACTIVE with -50 < endX < firstDownLine and
\* down < 4 adds exactly 1 to down, sets distanceToFirst to
\* firstDownLine - endX, moves lineOfScrimmage to endX, keeps firstDownLine,
\* possession and scores, and moves to WHISTLE.
C3_NextDown ==
    [][ (IsPlayEnd /\ -50 < fbLast'.x /\ fbLast'.x < footballRules.firstDownLine
                   /\ footballRules.down < 4) =>
          /\ footballRules'.down = footballRules.down + 1
          /\ footballRules'.distanceToFirst = footballRules.firstDownLine - fbLast'.x
          /\ footballRules'.lineOfScrimmage = fbLast'.x
          /\ footballRules'.firstDownLine = footballRules.firstDownLine
          /\ footballRules'.possession = footballRules.possession
          /\ ScoresUnchanged
          /\ footballRules'.playState = "WHISTLE" ]_vars

\* second down became third down after a play that ended at -39, 9 short
C3_Witness ==
    /\ fbLast.op = "endPlay" /\ fbLast.pre = "PLAY_ACTIVE" /\ fbLast.x = -39
    /\ footballRules.down = 3 /\ footballRules.distanceToFirst = 9
    /\ footballRules.firstDownLine = -30 /\ footballRules.playState = "WHISTLE"

\* C4: from a new drive (down = 1), of four consecutive plays that each end
\* short of the marker and outside both end zones, the first three keep
\* possession (down counts 2, 3, 4) and the fourth flips it, exactly once;
\* after the fourth down = 1, distanceToFirst = 10, lineOfScrimmage is the
\* spot of the fourth play, the phase is WHISTLE; no play changes a score.
C4_TurnoverOnDowns ==
    [][ (IsPlayEnd /\ shortRun'.n >= 1) =>
          /\ ScoresUnchanged
          /\ footballRules'.playState = "WHISTLE"
          /\ shortRun'.n \in 1..3 =>
                /\ footballRules'.possession = shortRun'.poss
                /\ footballRules'.possession = footballRules.possession
                /\ footballRules'.down = shortRun'.n + 1
          /\ shortRun'.n = 4 =>
                /\ footballRules.possession = shortRun'.poss
                /\ footballRules'.possession = Other(shortRun'.poss)
                /\ footballRules'.down = 1
                /\ footballRules'.distanceToFirst = 10
                /\ footballRules'.lineOfScrimmage = fbLast'.x ]_vars

\* the fourth short play of a home drive has just handed the ball to away
C4_Witness ==
    /\ fbLast.op = "endPlay" /\ fbLast.pre = "PLAY_ACTIVE"
    /\ shortRun.n = 4 /\ shortRun.poss = "home"
    /\ footballRules.possession = "away" /\ footballRules.down = 1
    /\ footballRules.lineOfScrimmage = -39

\* C5: snapBall() outside PRE_SNAP, and endPlay(x) outside PLAY_ACTIVE and
\* KICKOFF, change no field of FootballRules.
C5_OutOfPhaseNoOp ==
    [][ (\/ (fbLast'.op = "snapBall" /\ footballRules.playState # "PRE_SNAP")
         \/ (fbLast'.op = "endPlay"
               /\ footballRules.playState \notin {"PLAY_ACTIVE", "KICKOFF"})) =>
          footballRules' = footballRules ]_vars

\* snapBall() was called right after the whistle, before the teams lined up
C5_Witness ==
    /\ fbLast.op = "snapBall" /\ fbLast.pre = "WHISTLE"
    /\ footballRules.playState = "WHISTLE"

\* C7: performCoinFlip(call) in COIN_FLIP moves to KICKOFF; home receives and
\* away kicks exactly when the call matches the toss, otherwise the reverse;
\* lineOfScrimmage becomes -15 when home kicks and 15 when away kicks; the
\* scores are unchanged.
C7_CoinFlip ==
    [][ (fbLast'.op = "performCoinFlip" /\ footballRules.playState = "COIN_FLIP") =>
          LET won == fbLast'.call = fbLast'.result
          IN  /\ footballRules'.playState = "KICKOFF"
              /\ footballRules'.possession # footballRules'.kickingTeam
              /\ footballRules'.possession = (IF won THEN "home" ELSE "away")
              /\ footballRules'.kickingTeam = (IF won THEN "away" ELSE "home")
              /\ footballRules'.lineOfScrimmage
                    = (IF footballRules'.kickingTeam = "home" THEN -15 ELSE 15)
              /\ ScoresUnchanged ]_vars

\* heads was called, tails came up: away receives, home kicks from -15
C7_Witness ==
    /\ fbLast.op = "performCoinFlip" /\ fbLast.pre = "COIN_FLIP"
    /\ fbLast.call = "heads" /\ fbLast.result = "tails"
    /\ footballRules.kickingTeam = "home" /\ footballRules.lineOfScrimmage = -15
    /\ footballRules.playState = "KICKOFF"

(***************************************************************************)
(* Properties of the pitch rules (checked under SpecSoccer)                *)
(***************************************************************************)

\* C6: scoreGoal(team) called outside PLAYING changes neither the score, the
\* phase nor possession, and schedules no delayed kickoff.
C6_ScoreOutOfPhaseNoOp ==
    [][ (scLast'.op = "scoreGoal" /\ soccerRules.playState # "PLAYING") =>
          /\ soccerRules'.score = soccerRules.score
          /\ soccerRules'.playState = soccerRules.playState
          /\ soccerRules'.possession = soccerRules.possession
          /\ timers' = timers ]_vars

\* the side that attacks a goal line is the one SoccerField.isGoal credits
\* with a goal there
Attacker(side) == isGoal(IF side = "left" THEN -60 ELSE 60, 0)

InDefendedBox(team, pos) ==
    /\ isInPenaltyBox(pos.x, pos.y)
    /\ team = Other(Attacker(IF pos.x < 0 THEN "left" ELSE "right"))

C10_ClockOnlyWhilePlaying ==
    [][ scLast'.op = "updateTime" =>
          IF soccerRules.playState = "PLAYING"
          THEN soccerRules'.matchTime = soccerRules.matchTime + scLast'.d
          ELSE /\ soccerRules'.matchTime = soccerRules.matchTime
               /\ soccerRules'.playState = soccerRules.playState
               /\ soccerRules'.currentHalf = soccerRules.currentHalf
               /\ soccerRules'.score = soccerRules.score
               /\ soccerRules'.possession = soccerRules.possession ]_vars

\* the clock was stopped at 90 by a throw-in and updateTime left it there
C10_Witness ==
    /\ scLast.op = "updateTime" /\ scLast.pre = "OUT_OF_BOUNDS" /\ scLast.d = TimeStep
    /\ soccerRules.matchTime = TimeStep /\ soccerRules.playState = "OUT_OF_BOUNDS"

\* C11: while PLAYING in the first half an updateTime call moves to HALFTIME
\* exactly when it brings matchTime to halfDuration or more, and leaves the
\* phase PLAYING before that; in the second half it moves to GAME_OVER
\* exactly when matchTime reaches 2 x halfDuration; HALFTIME is entered by
\* no operation while the match is in its second half.
C11_HalftimeAndFullTime ==
    [][ /\ (scLast'.op = "updateTime" /\ soccerRules.playState = "PLAYING"
              /\ soccerRules.currentHalf = 1) =>
              soccerRules'.playState
                 = (IF soccerRules'.matchTime >= halfDuration THEN "HALFTIME"
                                                              ELSE "PLAYING")
        /\ (scLast'.op = "updateTime" /\ soccerRules.playState = "PLAYING"
              /\ soccerRules.currentHalf = 2) =>
              soccerRules'.playState
                 = (IF soccerRules'.matchTime >= 2 * halfDuration THEN "GAME_OVER"
                                                                  ELSE "PLAYING")
        /\ (soccerRules.currentHalf = 2 /\ soccerRules.playState # "HALFTIME") =>
              soccerRules'.playState # "HALFTIME" ]_vars

\* full time: the second half was being played and the clock reached 360
C11_Witness ==
    /\ scLast.op = "updateTime" /\ scLast.pre = "PLAYING" /\ scLast.d = TimeStep
    /\ soccerRules.currentHalf = 2 /\ soccerRules.matchTime = 2 * halfDuration
    /\ soccerRules.playState = "GAME_OVER"

\* GamePhysics drives the home carrier toward +x and the away carrier toward
\* -x (target x = -60): the end a team attacks, and the end it defends
AttackedEnd(team, x) == IF team = "home" THEN x >= 50 ELSE x <= -50

OwnEnd(team, x) == IF team = "home" THEN x <= -50 ELSE x >= 50

\* C12: endPlay in PLAY_ACTIVE scores relative to the team in possession: a
\* play that ends past the end the possessing team attacks is a touchdown for
\* it (6 points, other score unchanged); one that ends behind its own end is
\* a safety (2 points to the other team); both flip possession and move to
\* KICKOFF.  In particular an away play ending at x <= -50 is an away
\* touchdown, never a safety against away.
C12_ScoringRelativeToPossession ==
    [][ IsPlayEnd =>
          LET team == footballRules.possession
              pts(t) == IF t = "home" THEN footballRules.scoreHome
                                      ELSE footballRules.scoreAway
              pts2(t) == IF t = "home" THEN footballRules'.scoreHome
                                       ELSE footballRules'.scoreAway
          IN  /\ AttackedEnd(team, fbLast'.x) =>
                    /\ pts2(team) = pts(team) + 6
                    /\ pts2(Other(team)) = pts(Other(team))
                    /\ footballRules'.possession = Other(team)
                    /\ footballRules'.playState = "KICKOFF"
              /\ OwnEnd(team, fbLast'.x) =>
                    /\ pts2(Other(team)) = pts(Other(team)) + 2
                    /\ pts2(team) = pts(team)
                    /\ footballRules'.possession = Other(team)
                    /\ footballRules'.playState = "KICKOFF" ]_vars

\* the step is an update() call
IsBallUpdate == ballLast'.op = "update"

\* a rolling ball is at rest within this many update() calls
RestBound == 90

\* C13: every update() of a ball rolling on the ground strictly lowers its
\* speed and leaves it on the ground; the velocity is exactly zero within
\* RestBound calls; and an update() of a ball lying still on the ground leaves
\* its velocity zero and its position where it was.
C13_RollsToRest ==
    [][IsBallUpdate =>
         /\ Rolling(ball) =>
              /\ LenSq(ball'.velocity) < LenSq(ball.velocity)
              /\ HLenSq(ball'.velocity) < HLenSq(ball.velocity)
              /\ ball'.isGrounded /\ ball'.velocity.z = 0
         /\ rollTicks' <= RestBound
         /\ (ball.isGrounded /\ ball.position.z = 0 /\ ball.velocity = ZeroVec) =>
              /\ ball'.velocity = ZeroVec
              /\ ball'.position = ball.position]_vars

\* C13 witness: an update() found the ball rolling, after several such calls,
\* and left it with velocity zero away from the spot it was kicked from.
C13_Witness ==
    /\ ballLast.op = "update" /\ rollTicks > 10
    /\ ball.isGrounded /\ ball.velocity = ZeroVec /\ ball.position # ZeroVec

\* the step is a kick, pass or shot whose direction has length zero
IsZeroDirectionImpulse ==
    /\ ballLast'.op \in {"kick", "pass", "shoot"}
    /\ LenSq(ballLast'.dir) = 0

\* C14: a kick, pass or shot with a zero-length direction leaves the ball with
\* a horizontal velocity that is not zero (it moves along a default direction).
C14_ZeroDirectionFallsBack ==
    [][IsZeroDirectionImpulse => HLenSq(ball'.velocity) > 0]_vars

\* C15: a shot leaves the ball strictly faster than a kick with the same
\* (nonzero) direction, power, spin and lift would have left it.
C15_ShootFasterThanKick ==
    [][(ballLast'.op = "shoot" /\ HLenSq(ballLast'.dir) > 0) =>
         LenSq(ball'.velocity) >
           LenSq(kick(ball, ballLast'.dir, ballLast'.power, ballLast'.spin,
                      ball'.lastTouchedBy, ballLast'.lift).velocity)]_vars

\* the last attemptTackle call was within tackle range
InTackleRange ==
    LenSq(Sub(tackle.tackler.position, tackle.ballCarrier.position))
      <= TACKLE_RANGE * TACKLE_RANGE

\* C16: after an in-range attemptTackle the tackle power lies in [0, 1], the
\* break chance in [0, 0.5] and the returned slowdown in [0, 1]; after an
\* out-of-range attempt the result is a miss (no success, type 'missed', zero
\* knockback, slowdown 0) and Math.random() was not called.
C16_TackleRanges ==
    tackle.out.result.tackleType # "none" =>
      IF InTackleRange
      THEN /\ tackle.out.tacklePower >= 0 /\ tackle.out.tacklePower <= Unit
           /\ tackle.out.breakChance >= 0 /\ 2 * tackle.out.breakChance <= Unit
           /\ tackle.out.result.ballCarrierSlowdown >= 0
           /\ tackle.out.result.ballCarrierSlowdown <= Unit
           /\ tackle.out.rolled
      ELSE /\ tackle.out.result = TackleResult(FALSE, "missed", ZeroVec, 0)
           /\ ~tackle.out.rolled

\* C16 witness: a heavy, fast, head-on tackler in range, whose raw power
\* product exceeds 1 and is capped, ends in a full tackle.
C16_Witness ==
    /\ InTackleRange /\ tackle.out.tacklePower = Unit
    /\ tackle.out.result.tackleType = "full"
    /\ MassOf(tackle.tackler) = 2500 /\ MassOf(tackle.ballCarrier) = Unit

\* C17: a SoccerAI of the goalkeeper role is in state GOALKEEPER_POSITION.
C17_KeeperAlwaysInGoalkeeperPosition ==
    soccerAI.role = "GOALKEEPER" => soccerAI.state = "GOALKEEPER_POSITION"

\* a phase change of the loop that the cycle coin flip, kickoff, pre-snap,
\* play, whistle, pre-snap, ..., kickoff (on a score) allows
CycleAllows(e) ==
    /\ e.to = "PLAY_ACTIVE" => (e.from = "PRE_SNAP" /\ e.by = "snapBall")
    /\ e.to = "WHISTLE" => e.from = "PLAY_ACTIVE"
    /\ e.to = "PRE_SNAP" => e.from \in {"KICKOFF", "WHISTLE"}
    /\ e.to = "KICKOFF" =>
         \/ e.from = "COIN_FLIP"
         \/ e.from = "PLAY_ACTIVE" /\ e.by = "endPlay"

\* C18: every phase change a frame makes follows the cycle: PLAY_ACTIVE only
\* from PRE_SNAP by a snap, WHISTLE only from PLAY_ACTIVE, PRE_SNAP only from
\* KICKOFF or WHISTLE, KICKOFF only from COIN_FLIP or from a play ended by a score.
C18_PhaseCycle ==
    \A i \in 1..Len(frameTrail) : CycleAllows(frameTrail[i])

\* C19: of the endPlay calls of one frame at most one changes the rules, and
\* when one of them scored, the kickoff it set up is still the phase after
\* the frame.
C19_OneEndPlayPerFrame ==
    /\ Cardinality({i \in 1..Len(frameEnds) : frameEnds[i].changed}) <= 1
    /\ (\E i \in 1..Len(frameEnds) : frameEnds[i].scored) =>
         footballRules.playState = "KICKOFF"

(***************************************************************************)
(* Properties of the pitch loop (checked under SpecPitch)                  *)
(***************************************************************************)

\* the step is a tick whose handleRestart took a throw-in, corner or goal kick
IsRestartTaken ==
    /\ scLast'.op = "tick"
    /\ tickLog'.restarted
    /\ tickLog'.pre \in {"OUT_OF_BOUNDS", "CORNER_KICK", "GOAL_KICK"}

\* C20: a tick in which the restart key takes a throw-in, a corner kick or a
\* goal kick ends in the PLAYING phase, and its boundary check makes no
\* out-of-bounds or goal ruling.
C20_RestartResumesPlay ==
    [][IsRestartTaken
         => (soccerRules'.playState = "PLAYING" /\ tickLog'.rulings = << >>)]_vars

Uncontrolled ==
    {<<"home", i>> : i \in PlayerIndexes \ {soccerPhysics.controlledPlayer}}
      \union {<<"away", i>> : i \in PlayerIndexes}

\* C22: after every tick, the players whose velocity a SoccerAI wrote in that
\* tick are exactly the players that are not player-controlled, whatever
\* control switches were made.
C22_AISteersExactlyUncontrolled ==
    tickLog.steered # {} => tickLog.steered = Uncontrolled

(***************************************************************************)
(* Properties of the SoccerAI (checked under SpecAI)                       *)
(***************************************************************************)

\* the state the defender's priority list asks for: chase, mark, defend, hold
DefenderPriority(pos, ballPos, teamHasBall, nearestOpponent) ==
    IF ~teamHasBall /\ 10 * 10 * LenSq(Sub(pos, ballPos)) < (120 * 6) * (120 * 6)
    THEN "CHASE_BALL"
    ELSE IF nearestOpponent # null /\ LenSq(Sub(pos, nearestOpponent[1])) < 80 * 80
    THEN "MARK_PLAYER"
    ELSE IF ~teamHasBall THEN "DEFEND" ELSE "POSITION"

\* C23: after a decision of a defender-role AI the state is chase-ball if its
\* side lacks the ball and the ball is nearer than 0.6 x chaseRange, else
\* mark-opponent if an opponent is nearer than 8 (with or without the ball),
\* else defend if its side lacks the ball, else hold-position.
C23_DefenderPriority ==
    (aiLast.decided /\ soccerAI.role = "DEFENDER")
      => soccerAI.state = DefenderPriority(soccerAI.player.position, soccerAI.ballPosition,
                                           soccerAI.isAttacking, aiLast.nearestOpponent)

(***************************************************************************)
(* Properties of the receivers' routes (checked under SpecRoute)           *)
(***************************************************************************)

CutRoutes == {"slant", "post", "curl"}

\* C24: whenever the AI of a receiver on a slant, post or curl route runs
\* during an active play, first or later, the start position it measures the
\* cut distance from is the place where the receiver stood when that play
\* became active.
C24_CutMeasuredFromThisPlay ==
    [][(routeLog'.op = "update" /\ footballAI'.route \in CutRoutes)
          => footballAI'.startPosition = routeLog.activeStart]_vars

\* the receiver runs its curl in an active play, measured from where it stood
\* at the snap, and stands in the turn window: 8 run, 8.5 not yet
CurlStopped ==
    /\ routeRules.playState = "PLAY_ACTIVE"
    /\ footballAI.route = "curl" /\ footballAI.hasStartedRoute
    /\ footballAI.startPosition = routeLog.activeStart
    /\ receiver.position.x - footballAI.startPosition.x >= 8 * Unit
    /\ receiver.position.x - footballAI.startPosition.x < 8500

\* C30: a curl receiver that has run its 8 units and stands in the turn
\* window does not stay there for ever: the update is a function of the AI,
\* the receiver and the phase, so an update that finds it there changes one
\* of them (an update that changes none is repeated by every later one).
C30_CurlLeavesTurnWindow ==
    [][(routeLog'.op = "update" /\ CurlStopped)
          => ~(receiver' = receiver /\ footballAI' = footballAI)]_vars

(***************************************************************************)
(* Properties of the kickoff return (checked under SpecLoop)               *)
(***************************************************************************)

\* the step is a frame whose i-th endPlay call ended a kickoff return
\* without a score
EndsReturn(i) ==
    /\ fbLast'.op = "frame"
    /\ i \in 1 .. Len(frameEnds')
    /\ frameEnds'[i].pre = "PLAY_ACTIVE"
    /\ ~frameEnds'[i].scored
    /\ IsReturn(frameTrail', returning)

\* C25: a kickoff return that ends at endX without a score starts a fresh
\* drive there: down 1, 10 to go, line of scrimmage endX, marker at
\* min(endX + 10, 50), whatever down and marker were left from before.
C25_ReturnStartsFreshDrive ==
    [][\A i \in 1 .. 2 :
          EndsReturn(i)
            => /\ footballRules'.down = 1
               /\ footballRules'.distanceToFirst = 10
               /\ footballRules'.lineOfScrimmage = frameEnds'[i].endX
               /\ footballRules'.firstDownLine = Min(frameEnds'[i].endX + 10, 50)]_vars

(***************************************************************************)
(* Properties of the delayed kickoff (checked under SpecSoccer)            *)
(***************************************************************************)

\* C26: the delayed callback of scoreGoal acts only on a match still in
\* GOAL_SCORED: fired in any other phase (PLAYING, HALFTIME, GAME_OVER, a
\* restart, the kickoff of a reset match) it leaves phase, possession and
\* restart spot as the later events set them.
C26_StaleCallbackDoesNothing ==
    [][(scLast'.op = "timer" /\ soccerRules.playState # "GOAL_SCORED")
          => soccerRules' = soccerRules]_vars

(***************************************************************************)
(* Properties of control and possession flags (checked under SpecPitch)    *)
(***************************************************************************)

\* C27: exactly one home player is controlled; a player has hasBall only if
\* it is the controlled player and the loop is dribbling; while the loop is
\* dribbling the controlled player has hasBall.
C27_ControlAndBallFlags ==
    /\ Cardinality(soccerPhysics.isControlled) = 1
    /\ \A p \in soccerPhysics.hasBall :
          p = soccerPhysics.controlledPlayer /\ soccerPhysics.isDribbling
    /\ soccerPhysics.isDribbling
          => soccerPhysics.controlledPlayer \in soccerPhysics.hasBall

(***************************************************************************)
(* Properties of the release of the ball (checked under SpecLoop)          *)
(***************************************************************************)

\* the step is a frame of an active home play in which the user's player,
\* carrying the ball and free to act, began to throw or to kick
CarrierReleases ==
    /\ fbLast'.op = "frame"
    /\ footballRules.playState = "PLAY_ACTIVE" /\ footballRules.possession = "home"
    /\ gamePhysics.isCarryingBall
    /\ ~player.isActing
    /\ player'.isActing /\ player'.currentAction \in {"throw", "kick"}

\* C28: a throw or a kick by the ball carrier releases the ball: at the end
\* of that update the loop no longer carries it.
C28_ThrowOrKickReleases ==
    [][CarrierReleases => ~gamePhysics'.isCarryingBall]_vars

(***************************************************************************)
(* Invariants of the gridiron rules (checked under SpecFootball)           *)
(***************************************************************************)

\* what one step may do to the two scores
ScoreSteps == {<<0, 0>>, <<6, 0>>, <<0, 6>>, <<2, 0>>, <<0, 2>>}

\* C29: after the constructor and after every operation the down is 1 to 4
\* and the marker is at most 50; no score is negative, and a score changes
\* only in endPlay, by 6 or by 2 for one team, or in resetGame, to 0.
C29_DownMarkerAndScores ==
    /\ [](/\ footballRules.down \in 1 .. 4
          /\ footballRules.firstDownLine <= 50
          /\ footballRules.scoreHome >= 0 /\ footballRules.scoreAway >= 0)
    /\ [][\/ /\ footballRules'.scoreHome = footballRules.scoreHome
              /\ footballRules'.scoreAway = footballRules.scoreAway
           \/ /\ fbLast'.op = "endPlay"
              /\ <<footballRules'.scoreHome - footballRules.scoreHome,
                    footballRules'.scoreAway - footballRules.scoreAway>> \in ScoreSteps
           \/ /\ fbLast'.op = "resetGame"
              /\ footballRules'.scoreHome = 0 /\ footballRules'.scoreAway = 0]_vars

\* a fourth down before the marker at the goal line, reached by endPlay
\* after a score
C29_Witness ==
    /\ fbLast.op = "endPlay"
    /\ footballRules.down = 4 /\ footballRules.firstDownLine = 50
    /\ footballRules.scoreHome + footballRules.scoreAway > 0

====
